---- MODULE Spec2Model ----
(***************************************************************************)
(* A model of hato-bot-go: the amesh command parser (lib/misskey), the     *)
(* location resolver, the timestamp discovery and the radar image          *)
(* compositor (lib/amesh), with the HTTP helper of lib/http.               *)
(*                                                                         *)
(* Go strings are modelled as sequences of one-character strings, so that  *)
(* strings.Fields, strings.Join, strings.HasPrefix, strings.Split and      *)
(* strconv.ParseFloat are computed character by character.                 *)
(***************************************************************************)
EXTENDS Integers, Sequences, FiniteSets, TLC

VARIABLES
    cmdText,      \* ParseAmeshCommand: the text handed to the parser
    cmdResult,    \* ParseAmeshCommand: the ParseResult returned, or NoValue
    locReq,       \* ParseLocationWithClient: the params (NilReq, or Client and Place)
    locResult,    \* ParseLocationWithClient: [loc, err] returned, or NoValue
    locRequests,  \* ParseLocationWithClient: the requests handed to client.Do
    locResponse,  \* ParseLocationWithClient: the response client.Do gave
    tsResponses,  \* getLatestTimestamps: what client.Do gave for the index URLs so far
    tsAllTimeData, \* getLatestTimestamps: allTimeData
    tsResult,     \* getLatestTimestamps: the map returned, or NoValue
    render,       \* CreateAmeshImage: its position, locals, canvas, requests and result
    lightningFetch, \* getLightningData: the answer of the lightning URL and what is returned
    bot,          \* messageHandler and Bot.ProcessAmeshCommand: position, requests, result
    conn,         \* main: the position in the reconnect loop, the connection, the waits
    proj,         \* getWebMercatorPixel: the params of a call and what is returned
    line,         \* drawLine: the params, the locals of the loop and the pixels written
    circle,       \* drawLightningMarker: the centre, the canvas before and after
    listen,       \* Bot.Listen: the messages read, the handler calls, the return
    layout        \* CreateAmeshImage and drawLightningMarker: centre, centre tile, marker position

parseVars == <<cmdText, cmdResult>>
locVars == <<locReq, locResult, locRequests, locResponse>>
tsVars == <<tsResponses, tsAllTimeData, tsResult>>
renderVars == <<render>>
earlierVars == <<parseVars, locVars, tsVars, renderVars>>
finalVars == <<circle, listen, layout>>
laterVars == <<lightningFetch, bot, conn, proj, line, finalVars>>
vars == <<cmdText, cmdResult, locReq, locResult, locRequests, locResponse,
          tsResponses, tsAllTimeData, tsResult, render,
          lightningFetch, bot, conn, proj, line, circle, listen, layout>>

NoValue == [none |-> TRUE]

----------------------------------------------------------------------------
(* Bounds of the model *)

\* the number of chunks a command text is concatenated from
MaxCmdChunks == 5

\* the greatest tile radius (AroundTiles) of a render request
MaxRadius == 1

\* the number of tile fetches that fail in one call of CreateAmeshImage whose
\* index and lightning fetches succeed
MaxTileFailures == 2

\* the number of tile fetches that fail in one call of CreateAmeshImage whose
\* index and lightning fetches have every outcome
MaxTileFailuresDegraded == 1

\* the number of chunks a raw place is concatenated from
MaxPlaceChunks == 5

\* the number of chunks a geocoder coordinate string is concatenated from
MaxCoordChunks == 3

\* the number of records the three timestamp indexes hold together
MaxTimeRecords == 2
\* the most features a lightning GeoJSON document carries
MaxFeatures == 2
\* the most times the streaming connection is lost in one behaviour
MaxLosses == 2
\* the most messages read from one connection
MaxMessages == 2
\* the count of consecutive failed reconnection attempts stops growing here
MaxFailedAttempts == 3
\* how far the zoom levels tried lie below 0 and above 30
MaxZoomBeyond == 2
\* how often the same projection is computed
ProjCalls == 2
\* the canvas lines are drawn on
LineCanvasWidth == 3
LineCanvasHeight == 2
\* the most iterations of the loop of drawLine that are followed
MaxLineSteps == 20
\* the canvas markers are drawn on
CircleCanvasWidth == 16
CircleCanvasHeight == 15
\* the most messages a connection delivers before it fails
MaxStream == 3

----------------------------------------------------------------------------
(* Strings as sequences of characters *)

\* unicode.IsSpace restricted to the characters of the model
IsSpace(c) == c \in {" ", "\t", "\n"}

\* every sequence over S of length at most n
SeqsUpTo(S, n) == UNION {[1..k -> S] : k \in 0..n}

RECURSIVE Flatten(_)
\* the concatenation of a sequence of strings
Flatten(ss) == IF ss = <<>> THEN <<>> ELSE Head(ss) \o Flatten(Tail(ss))

\* strings.HasPrefix
HasPrefix(s, prefix) ==
    /\ Len(prefix) <= Len(s)
    /\ SubSeq(s, 1, Len(prefix)) = prefix

\* strings.TrimPrefix
TrimPrefix(s, prefix) ==
    IF HasPrefix(s, prefix) THEN SubSeq(s, Len(prefix) + 1, Len(s)) ELSE s

RECURSIVE TrimLeft(_)
TrimLeft(s) ==
    IF s # <<>> /\ IsSpace(Head(s)) THEN TrimLeft(Tail(s)) ELSE s

RECURSIVE TrimRight(_)
TrimRight(s) ==
    IF s # <<>> /\ IsSpace(s[Len(s)]) THEN TrimRight(SubSeq(s, 1, Len(s) - 1)) ELSE s

\* strings.TrimSpace
TrimSpace(s) == TrimRight(TrimLeft(s))

RECURSIVE FieldsFrom(_, _, _)
\* the scan of strings.Fields: cur is the field being read, acc the fields read
FieldsFrom(s, cur, acc) ==
    IF s = <<>>
    THEN IF cur = <<>> THEN acc ELSE Append(acc, cur)
    ELSE IF IsSpace(Head(s))
         THEN FieldsFrom(Tail(s), <<>>, IF cur = <<>> THEN acc ELSE Append(acc, cur))
         ELSE FieldsFrom(Tail(s), Append(cur, Head(s)), acc)

\* strings.Fields
Fields(s) == FieldsFrom(s, <<>>, <<>>)

RECURSIVE Join(_, _)
\* strings.Join
Join(elems, sep) ==
    IF elems = <<>> THEN <<>>
    ELSE IF Len(elems) = 1 THEN elems[1]
    ELSE elems[1] \o sep \o Join(Tail(elems), sep)


RECURSIVE SplitFrom(_, _, _, _)
\* the scan of strings.Split for a one-character separator
SplitFrom(s, sep, cur, acc) ==
    IF s = <<>> THEN Append(acc, cur)
    ELSE IF Head(s) = sep
         THEN SplitFrom(Tail(s), sep, <<>>, Append(acc, cur))
         ELSE SplitFrom(Tail(s), sep, Append(cur, Head(s)), acc)

\* strings.Split(s, sep): never empty, Split("", ",") is one empty field
Split(s, sep) == SplitFrom(s, sep, <<>>, <<>>)

DigitChars == <<"0", "1", "2", "3", "4", "5", "6", "7", "8", "9">>

IsDigit(c) == \E d \in 1..10 : DigitChars[d] = c

DigitValue(c) == (CHOOSE d \in 1..10 : DigitChars[d] = c) - 1

RECURSIVE Pow10(_)
Pow10(n) == IF n = 0 THEN 1 ELSE 10 * Pow10(n - 1)

RECURSIVE NatToString(_)
\* the decimal digits of a natural number
NatToString(n) ==
    IF n < 10 THEN <<DigitChars[n + 1]>>
    ELSE NatToString(n \div 10) \o <<DigitChars[(n % 10) + 1]>>

RECURSIVE ReadDecimal(_, _, _, _, _)
\* the digit scan of strconv.ParseFloat (readFloat), base 10 without exponent:
\* digits with at most one "."; mant / 10^scale is the value read
ReadDecimal(s, mant, scale, sawDot, sawDigits) ==
    IF s = <<>>
    THEN [ok |-> sawDigits, mant |-> mant, scale |-> scale]
    ELSE IF Head(s) = "."
         THEN IF sawDot THEN [ok |-> FALSE, mant |-> 0, scale |-> 0]
              ELSE ReadDecimal(Tail(s), mant, scale, TRUE, sawDigits)
    ELSE IF IsDigit(Head(s))
         THEN ReadDecimal(Tail(s), 10 * mant + DigitValue(Head(s)),
                          IF sawDot THEN scale + 1 ELSE scale, sawDot, TRUE)
    ELSE [ok |-> FALSE, mant |-> 0, scale |-> 0]

\* strconv.ParseFloat(s, 64) on decimal literals: an optional sign, then
\* digits with an optional point. ok is err == nil; the value is
\* (-1)^neg * mant / 10^scale.
ParseFloat(s) ==
    LET signed == s # <<>> /\ Head(s) \in {"+", "-"}
        r == ReadDecimal(IF signed THEN Tail(s) ELSE s, 0, 0, FALSE, FALSE)
    IN  [ok |-> r.ok, neg |-> r.ok /\ signed /\ Head(s) = "-",
         mant |-> r.mant, scale |-> r.scale]

\* fmt's %.2f of a parsed value: rounded to the nearest hundredth (no value
\* of the model lies halfway between two hundredths)
FormatF2(v) ==
    LET hundredths ==
            IF v.scale <= 2 THEN v.mant * Pow10(2 - v.scale)
            ELSE LET unit == Pow10(v.scale - 2)
                 IN  (v.mant \div unit) + (IF 2 * (v.mant % unit) >= unit THEN 1 ELSE 0)
        frac == hundredths % 100
    IN  (IF v.neg THEN <<"-">> ELSE <<>>)
        \o NatToString(hundredths \div 100)
        \o <<".">> \o <<DigitChars[(frac \div 10) + 1], DigitChars[(frac % 10) + 1]>>

----------------------------------------------------------------------------
(* lib/misskey: ParseAmeshCommand *)

Amesh == <<"a", "m", "e", "s", "h">>
AmeshSpace == <<"a", "m", "e", "s", "h", " ">>
\* the default place: the two code points U+6771 U+4EAC (Tokyo)
DefaultPlace == <<"U+6771", "U+4EAC">>

\* the pieces command texts are concatenated from
CmdChunks == {Amesh, <<" ">>, <<"\t">>, <<"@">>, <<"x">>}

CmdTexts == {Flatten(cs) : cs \in SeqsUpTo(CmdChunks, MaxCmdChunks)}

\* a parser that accepts every text starting with "amesh"
ParseAmeshCommandNoSpace(text) ==
    LET words == Fields(TrimSpace(text))
        cleanWords == SelectSeq(words, LAMBDA w : ~HasPrefix(w, <<"@">>))
        cleaned == Join(cleanWords, <<" ">>)
    IN  IF HasPrefix(cleaned, Amesh)
        THEN [Place |-> TrimSpace(TrimPrefix(cleaned, Amesh)), IsAmesh |-> TRUE]
        ELSE [Place |-> <<>>, IsAmesh |-> FALSE]

\* a parser that does not remove the mentions that follow the command word
ParseAmeshCommandKeepMentions(text) ==
    LET words == Fields(TrimSpace(text))
        lead == SelectSeq(words, LAMBDA w : ~HasPrefix(w, <<"@">>))
        cleaned == IF lead = <<>> \/ lead[1] # Amesh THEN Join(lead, <<" ">>)
                   ELSE LET i == CHOOSE k \in 1..Len(words) :
                                     /\ words[k] = Amesh
                                     /\ \A j \in 1..(k - 1) : words[j] # Amesh
                        IN  Join(SubSeq(words, i, Len(words)), <<" ">>)
    IN  IF HasPrefix(cleaned, AmeshSpace)
        THEN [Place |-> TrimSpace(TrimPrefix(cleaned, AmeshSpace)), IsAmesh |-> TRUE]
        ELSE IF cleaned = Amesh
        THEN [Place |-> DefaultPlace, IsAmesh |-> TRUE]
        ELSE [Place |-> <<>>, IsAmesh |-> FALSE]

ParseAmeshCommand(text) ==
    LET trimmed == TrimSpace(text)
        words == Fields(trimmed)
        cleanWords == SelectSeq(words, LAMBDA w : ~HasPrefix(w, <<"@">>))
        cleaned == Join(cleanWords, <<" ">>)
    IN  IF HasPrefix(cleaned, AmeshSpace)
        THEN [Place |-> TrimSpace(TrimPrefix(cleaned, AmeshSpace)), IsAmesh |-> TRUE]
        ELSE IF cleaned = Amesh
        THEN [Place |-> DefaultPlace, IsAmesh |-> TRUE]
        ELSE [Place |-> <<>>, IsAmesh |-> FALSE]


----------------------------------------------------------------------------
(* lib/http: ExecuteHTTPRequest, and the errors of lib/amesh *)

\* An error value is the sentinel errors.Is finds in its chain (errors.Wrap
\* keeps the chain) and the message of the outermost wrap.
NoError == [sentinel |-> "nil", msg |-> ""]
Err(sentinel, msg) == [sentinel |-> sentinel, msg |-> msg]
\* errors.Wrap(err, msg)
Wrap(err, msg) == [sentinel |-> err.sentinel, msg |-> msg]
\* errors.Is(err, sentinel)
ErrorIs(err, sentinel) == err.sentinel = sentinel

StatusOK == 200
StatusNoContent == 204

\* what client.Do gives: a transport error, or a response with a status and a body
TransportError == [kind |-> "transportError"]
Response(status, body) == [kind |-> "response", status |-> status, body |-> body]

\* ExecuteHTTPRequest accepting only 200
ExecuteHTTPRequestOnly200(r) ==
    IF r.kind = "transportError"
    THEN [resp |-> NoValue, err |-> Err("client.Do", "Failed to Do")]
    ELSE IF r.status # StatusOK
    THEN [resp |-> NoValue, err |-> Err("ErrHTTPRequestError", "status")]
    ELSE [resp |-> r, err |-> NoError]

\* ExecuteHTTPRequest reporting a bad status as a plain transport failure
ExecuteHTTPRequestNoSentinel(r) ==
    IF r.kind = "transportError" \/ r.status \notin {StatusOK, StatusNoContent}
    THEN [resp |-> NoValue, err |-> Err("client.Do", "Failed to Do")]
    ELSE [resp |-> r, err |-> NoError]

ExecuteHTTPRequest(r) ==
    IF r.kind = "transportError"
    THEN [resp |-> NoValue, err |-> Err("client.Do", "Failed to Do")]
    ELSE IF r.status \notin {StatusOK, StatusNoContent}
    THEN [resp |-> NoValue, err |-> Err("ErrHTTPRequestError", "status")]
    ELSE [resp |-> r, err |-> NoError]

\* handleHTTPResponse: io.ReadAll of the body
handleHTTPResponse(resp) ==
    IF resp.body.kind = "readError"
    THEN [body |-> NoValue, err |-> Err("io.ReadAll", "Failed to io.ReadAll")]
    ELSE [body |-> resp.body, err |-> NoError]

----------------------------------------------------------------------------
(* lib/amesh: makeHTTPRequest, fetchTimeData, getLatestTimestamps *)

\* makeHTTPRequest: a non-success status gives an empty result, not an error
makeHTTPRequest(r) ==
    LET executed == ExecuteHTTPRequest(r)
        read == handleHTTPResponse(executed.resp)
    IN  IF executed.err # NoError
        THEN IF ErrorIs(executed.err, "ErrHTTPRequestError")
             THEN [result |-> [Body |-> NoValue, IsEmpty |-> TRUE], err |-> NoError]
             ELSE [result |-> NoValue,
                   err |-> Wrap(executed.err, "Failed to libHttp.ExecuteHTTPRequest")]
        ELSE IF read.err # NoError
        THEN [result |-> NoValue, err |-> Wrap(read.err, "Failed to handleHTTPResponse")]
        ELSE [result |-> [Body |-> read.body, IsEmpty |-> FALSE], err |-> NoError]

\* fetchTimeData: the records of one index, or an error
fetchTimeData(r) ==
    LET got == makeHTTPRequest(r)
    IN  IF got.err # NoError
        THEN [timeData |-> <<>>, err |-> Wrap(got.err, "Failed to makeHTTPRequest")]
        ELSE IF got.result.Body = NoValue
        THEN [timeData |-> <<>>, err |-> Err("errors.New", "Body is nil")]
        ELSE IF got.result.Body.kind # "timeJSON"
        THEN [timeData |-> <<>>, err |-> Err("json", "Failed to json.Unmarshal")]
        ELSE [timeData |-> got.result.Body.records, err |-> NoError]

RECURSIVE StringLess(_, _)
\* a < b on Go strings of digits: byte-wise lexicographic order
StringLess(a, b) ==
    IF b = <<>> THEN FALSE
    ELSE IF a = <<>> THEN TRUE
    ELSE IF Head(a) # Head(b) THEN DigitValue(Head(a)) < DigitValue(Head(b))
    ELSE StringLess(Tail(a), Tail(b))

\* one pass of the fetch loop in which a failing index discards what was read
appendTimeDataResetOnError(allTimeData, r) ==
    LET fetched == fetchTimeData(r)
    IN  IF fetched.err # NoError THEN <<>> ELSE allTimeData \o fetched.timeData

\* one pass of the fetch loop of getLatestTimestamps: a failing index is skipped
appendTimeData(allTimeData, r) ==
    LET fetched == fetchTimeData(r)
    IN  IF fetched.err # NoError THEN allTimeData ELSE allTimeData \o fetched.timeData

RECURSIVE collectTimeData(_, _)
\* the fetch loop of getLatestTimestamps over the answers of the URLs
collectTimeData(allTimeData, responses) ==
    IF responses = <<>> THEN allTimeData
    ELSE collectTimeData(appendTimeData(allTimeData, Head(responses)), Tail(responses))

RECURSIVE latestTimeOf(_, _, _)
\* the inner loops of getLatestTimestamps for one element
latestTimeOf(element, timeData, latestTime) ==
    IF timeData = <<>> THEN latestTime
    ELSE LET td == Head(timeData)
             hit == /\ td.BaseTime = td.ValidTime
                    /\ \E i \in 1..Len(td.Elements) : td.Elements[i] = element
                    /\ StringLess(latestTime, td.BaseTime)
         IN  latestTimeOf(element, Tail(timeData), IF hit THEN td.BaseTime ELSE latestTime)

\* the second half of getLatestTimestamps: the distinct elements, and the
\* latest timestamp of each
latestTimestampsOf(allTimeData) ==
    LET elementMap == UNION {{allTimeData[i].Elements[j] :
                                  j \in 1..Len(allTimeData[i].Elements)} :
                             i \in 1..Len(allTimeData)}
    IN  [element \in elementMap |-> latestTimeOf(element, allTimeData, <<>>)]

\* getLatestTimestamps, responses being what client.Do gives for the three URLs
getLatestTimestamps(responses) == latestTimestampsOf(collectTimeData(<<>>, responses))

----------------------------------------------------------------------------
(* lib/amesh: ParseLocationWithClient *)

APIKey == <<"k", "e", "y">>

\* url.QueryEscape of one character of the model: a space becomes "+",
\* letters, digits, "-" and "." stay, every other byte is %XX
EscapeChar(c) ==
    IF c = " " THEN <<"+">>
    ELSE IF c = "\t" THEN <<"%", "0", "9">>
    ELSE IF c = "," THEN <<"%", "2", "C">>
    ELSE IF c = "U+6771" THEN <<"%", "E", "6", "%", "9", "D", "%", "B", "1">>
    ELSE IF c = "U+4EAC" THEN <<"%", "E", "4", "%", "B", "A", "%", "A", "C">>
    ELSE <<c>>

RECURSIVE QueryEscape(_)
\* url.QueryEscape
QueryEscape(s) == IF s = <<>> THEN <<>> ELSE EscapeChar(Head(s)) \o QueryEscape(Tail(s))

NilReq == [nil |-> TRUE]
LocParams(client, place) == [Client |-> client, Place |-> place]

Location(lat, lng, name) == [Lat |-> lat, Lng |-> lng, PlaceName |-> name]

\* the part of ParseLocationWithClient after the response has been read
DecodeGeocode(body, place, requests) ==
    IF body.kind # "json"
    THEN [loc |-> NoValue, err |-> Err("ErrJSONUnmarshal", "json.Unmarshal"),
          requests |-> requests]
    ELSE IF Len(body.Feature) = 0
    THEN [loc |-> NoValue, err |-> Err("ErrNoResultsFound", place),
          requests |-> requests]
    ELSE LET feature == body.Feature[1]
             coords == Split(feature.Coordinates, ",")
         IN  IF Len(coords) < 2
             THEN [loc |-> NoValue,
                   err |-> Err("ErrInvalidCoordinatesFormat", "invalid coordinates format"),
                   requests |-> requests]
             ELSE LET lng == ParseFloat(coords[1])
                      lat == ParseFloat(coords[2])
                  IN  IF ~lng.ok
                      THEN [loc |-> NoValue,
                            err |-> Err("strconv.ErrSyntax", "Failed to strconv.ParseFloat"),
                            requests |-> requests]
                      ELSE IF ~lat.ok
                      THEN [loc |-> NoValue,
                            err |-> Err("strconv.ErrSyntax", "Failed to strconv.ParseFloat"),
                            requests |-> requests]
                      ELSE [loc |-> Location(lat, lng, feature.Name),
                            err |-> NoError, requests |-> requests]

\* the direct-coordinate check with latitude and longitude exchanged
DirectCoordinatesSwapped(place) ==
    LET parts == Fields(place)
        first == ParseFloat(parts[1])
        second == ParseFloat(parts[2])
    IN  IF Len(parts) = 2 /\ first.ok /\ second.ok
        THEN [ok |-> TRUE,
              loc |-> Location(second, first,
                               FormatF2(first) \o <<",">> \o FormatF2(second))]
        ELSE [ok |-> FALSE, loc |-> NoValue]

\* the test whether the coordinates are given directly
DirectCoordinates(place) ==
    LET parts == Fields(place)
        first == ParseFloat(parts[1])
        second == ParseFloat(parts[2])
    IN  IF Len(parts) = 2 /\ first.ok /\ second.ok
        THEN [ok |-> TRUE,
              loc |-> Location(first, second,
                               FormatF2(first) \o <<",">> \o FormatF2(second))]
        ELSE [ok |-> FALSE, loc |-> NoValue]

\* a geocoding query without the default place
GeocodeQueryPlaceNoDefault(place) == place

\* the place the geocoder is asked for
GeocodeQueryPlace(place) == IF place = <<>> THEN DefaultPlace ELSE place

\* ParseLocationWithClient(ctx, req), r being what client.Do gives if called:
\* the location, the error and the requests handed to client.Do
ParseLocationWithClient(req, r) ==
    IF req = NilReq \/ req.Client = "nil"
    THEN [loc |-> NoValue, err |-> Err("ErrParamsNil", "params is nil"), requests |-> <<>>]
    ELSE
    LET direct == DirectCoordinates(req.Place)
    IN  IF direct.ok
        THEN [loc |-> direct.loc, err |-> NoError, requests |-> <<>>]
        ELSE
        LET place == GeocodeQueryPlace(req.Place)
            requests == <<[appid |-> APIKey, query |-> QueryEscape(place)]>>
            executed == ExecuteHTTPRequest(r)
            read == handleHTTPResponse(executed.resp)
        IN  IF executed.err # NoError
            THEN [loc |-> NoValue,
                  err |-> Wrap(executed.err, "Failed to libHttp.ExecuteHTTPRequest"),
                  requests |-> requests]
            ELSE IF read.err # NoError
            THEN [loc |-> NoValue, err |-> Wrap(read.err, "Failed to handleHTTPResponse"),
                  requests |-> requests]
            ELSE DecodeGeocode(read.body, place, requests)

\* the pieces raw places are concatenated from
PlaceChunks == {<<"1">>, <<"-">>, <<".", "1", "1", "7">>, <<"x">>, <<" ">>}

Places == {Flatten(cs) : cs \in SeqsUpTo(PlaceChunks, MaxPlaceChunks)}

\* the pieces the coordinate strings of geocoder results are concatenated from
CoordChunks == {<<"1", ",">>, <<"7">>, <<"x">>, <<",">>}

CoordStrings == {Flatten(cs) : cs \in SeqsUpTo(CoordChunks, MaxCoordChunks)}

Feature(name, coordinates) == [Name |-> name, Coordinates |-> coordinates]
JSONBody(features) == [kind |-> "json", Feature |-> features]
InvalidJSON == [kind |-> "invalidJSON"]
ReadError == [kind |-> "readError"]

\* a geocoder result as the tests mock it: "Coordinates": "1,7"
GoodFeature == Feature(<<"T">>, <<"1", ",", "7">>)
OtherFeature == Feature(<<"O">>, <<"7", ",", "1">>)

\* the bodies of a geocoder answer
GeocodeBodies ==
    {ReadError, InvalidJSON, JSONBody(<<>>)}
        \cup {JSONBody(<<Feature(<<"T">>, c)>>) : c \in CoordStrings}
        \cup {JSONBody(<<Feature(<<"T">>, c), OtherFeature>>) : c \in CoordStrings}

\* everything client.Do can give to the geocoding request
GeocodeResponses ==
    {TransportError, Response(400, InvalidJSON), Response(500, InvalidJSON),
     Response(StatusNoContent, InvalidJSON)}
        \cup {Response(StatusOK, b) : b \in GeocodeBodies}

\* one answer of each kind
FewGeocodeResponses ==
    {TransportError, Response(500, InvalidJSON), Response(StatusOK, InvalidJSON),
     Response(StatusOK, JSONBody(<<>>)), Response(StatusOK, JSONBody(<<GoodFeature>>))}

\* the raw places the geocoder answers are tried on
FewPlaces == {<<>>, <<"x">>, <<"1">>, <<"1", " ", "x">>}

ParseIdle ==
    /\ cmdText = <<>>
    /\ cmdResult = NoValue

LocIdle ==
    /\ locReq = NoValue
    /\ locResult = NoValue
    /\ locRequests = <<>>
    /\ locResponse = NoValue

TsIdle ==
    /\ tsResponses = <<>>
    /\ tsAllTimeData = <<>>
    /\ tsResult = NoValue

\* the state of a call of CreateAmeshImage that has not begun
RenderIdleState ==
    [pc |-> "idle", params |-> NoValue, hrpnsTimestamp |-> <<>>,
     lightningData |-> <<>>, centerTileX |-> 0, centerTileY |-> 0,
     img |-> NoValue, dx |-> 0, dy |-> 0,
     requests |-> <<>>, result |-> NoValue]

RenderIdle == render = RenderIdleState

LightningIdle == lightningFetch = NoValue
BotIdle == bot = NoValue
ConnIdle == conn = NoValue
ProjIdle == proj = NoValue
LineIdle == line = NoValue
CircleIdle == circle = NoValue
ListenIdle == listen = NoValue
LayoutIdle == layout = NoValue
FinalIdle == CircleIdle /\ ListenIdle /\ LayoutIdle

\* the parser, the location resolver, the timestamp discovery and the
\* compositor have not been called
EarlierIdle == ParseIdle /\ LocIdle /\ TsIdle /\ RenderIdle
LaterIdle == LightningIdle /\ BotIdle /\ ConnIdle /\ ProjIdle /\ LineIdle /\ FinalIdle

ParseInit ==
    /\ cmdText \in CmdTexts
    /\ cmdResult = NoValue
    /\ LocIdle
    /\ TsIdle
    /\ RenderIdle
    /\ LaterIdle

\* the caller hands cmdText to the parser
ParseCommand ==
    /\ cmdResult = NoValue
    /\ cmdResult' = ParseAmeshCommand(cmdText)
    /\ UNCHANGED <<cmdText, locVars, tsVars, renderVars, laterVars>>

ParseNext == ParseCommand

SpecParse == ParseInit /\ [][ParseNext]_vars

LocInitOver(places) ==
    /\ locReq \in {NilReq, LocParams("nil", DefaultPlace)}
                    \cup {LocParams("client", p) : p \in places}
    /\ locResult = NoValue
    /\ locRequests = <<>>
    /\ locResponse = NoValue
    /\ ParseIdle
    /\ TsIdle
    /\ RenderIdle
    /\ LaterIdle

\* one call of ParseLocationWithClient, the client answering from responses
ResolveLocation(responses) ==
    /\ locResult = NoValue
    /\ \E r \in responses :
          LET out == ParseLocationWithClient(locReq, r)
          IN  /\ locResult' = [loc |-> out.loc, err |-> out.err]
              /\ locRequests' = out.requests
              /\ locResponse' = IF out.requests = <<>> THEN NoValue ELSE r
    /\ UNCHANGED <<locReq, parseVars, tsVars, renderVars, laterVars>>

\* every raw place, one geocoder answer of each kind
LocInit == LocInitOver(Places)
LocNext == ResolveLocation(FewGeocodeResponses)
SpecLocation == LocInit /\ [][LocNext]_vars

\* a few raw places, every geocoder answer
GeocodeInit == LocInitOver(FewPlaces)
GeocodeNext == ResolveLocation(GeocodeResponses)
SpecGeocode == GeocodeInit /\ [][GeocodeNext]_vars

\* the times and names of index records: "10" < "2" as strings
TimeStrings == {<<"1", "0">>, <<"2">>}
ElementLists == {<<"hrpns_nd">>, <<"liden">>, <<"hrpns_nd", "liden">>}

timeJSONElement(baseTime, validTime, elements) ==
    [BaseTime |-> baseTime, ValidTime |-> validTime, Elements |-> elements]

TimeRecords ==
    {timeJSONElement(b, v, e) : b \in TimeStrings, v \in TimeStrings, e \in ElementLists}

TimeBody(records) == [kind |-> "timeJSON", records |-> records]

\* what client.Do can give for an index URL holding n records
TimeResponses(n) ==
    IF n = 0
    THEN {TransportError, Response(500, InvalidJSON), Response(StatusOK, ReadError),
          Response(StatusOK, InvalidJSON), Response(StatusOK, TimeBody(<<>>))}
    ELSE {Response(StatusOK, TimeBody(recs)) : recs \in [1..n -> TimeRecords]}

\* the number of index URLs
NumIndexURLs == 3

RECURSIVE RecordsIn(_)
\* the records the answers hold together
RecordsIn(responses) ==
    IF responses = <<>> THEN 0
    ELSE (IF Head(responses).kind = "response" /\ Head(responses).body.kind = "timeJSON"
          THEN Len(Head(responses).body.records) ELSE 0) + RecordsIn(Tail(responses))

TsInit ==
    /\ TsIdle
    /\ ParseIdle
    /\ LocIdle
    /\ RenderIdle
    /\ LaterIdle

\* one pass of the loop over the index URLs: fetchTimeData, then append or skip
FetchIndex ==
    /\ Len(tsResponses) < NumIndexURLs
    /\ \E n \in 0..(MaxTimeRecords - RecordsIn(tsResponses)) :
          \E r \in TimeResponses(n) :
              /\ tsResponses' = Append(tsResponses, r)
              /\ tsAllTimeData' = appendTimeData(tsAllTimeData, r)
    /\ UNCHANGED <<tsResult, parseVars, locVars, renderVars, laterVars>>

\* the rest of getLatestTimestamps, after the loop
DiscoverTimestamps ==
    /\ Len(tsResponses) = NumIndexURLs
    /\ tsResult = NoValue
    /\ tsResult' = latestTimestampsOf(tsAllTimeData)
    /\ UNCHANGED <<tsResponses, tsAllTimeData, parseVars, locVars, renderVars, laterVars>>

TsNext == FetchIndex \/ DiscoverTimestamps
SpecTimestamps == TsInit /\ [][TsNext]_vars

----------------------------------------------------------------------------
(* lib/amesh: CreateAmeshImage *)

\* the side of a map tile in pixels
TileSize == 256

\* the zoom level CreateImageReaderWithClient asks for
RenderZoom == 10

\* a GeoJSON feature of the lightning data
LightningFeature(coordinates, type) == [Coordinates |-> coordinates, Type |-> type]
GeoJSONBody(features) == [kind |-> "geoJSON", Features |-> features]
lightningPoint(lat, lng, type) == [Lat |-> lat, Lng |-> lng, Type |-> type]

RECURSIVE lightningPointsOfLatFirst(_)
\* the loop of getLightningData reading the coordinates as [lat, lng]
lightningPointsOfLatFirst(features) ==
    IF features = <<>> THEN <<>>
    ELSE LET feature == Head(features)
         IN  (IF Len(feature.Coordinates) < 2 THEN <<>>
              ELSE <<lightningPoint(feature.Coordinates[1], feature.Coordinates[2],
                                    feature.Type)>>)
             \o lightningPointsOfLatFirst(Tail(features))

RECURSIVE lightningPointsOf(_)
\* the loop of getLightningData over the features: one with fewer than two
\* coordinates is skipped
lightningPointsOf(features) ==
    IF features = <<>> THEN <<>>
    ELSE LET feature == Head(features)
         IN  (IF Len(feature.Coordinates) < 2 THEN <<>>
              ELSE <<lightningPoint(feature.Coordinates[2], feature.Coordinates[1],
                                    feature.Type)>>)
             \o lightningPointsOf(Tail(features))

\* getLightningData, r being what client.Do gives for the lightning URL
getLightningData(r) ==
    LET got == makeHTTPRequest(r)
    IN  IF got.err # NoError
        THEN [points |-> <<>>, err |-> Wrap(got.err, "Failed to makeHTTPRequest")]
        ELSE IF got.result.IsEmpty
        THEN [points |-> <<>>, err |-> NoError]
        ELSE IF got.result.Body.kind # "geoJSON"
        THEN [points |-> <<>>, err |-> Err("json", "Failed to json.Unmarshal")]
        ELSE [points |-> lightningPointsOf(got.result.Body.Features), err |-> NoError]

\* a body that image.Decode decodes to a tile image
PNGBody == [kind |-> "png"]

\* downloadTile, r being what client.Do gives for the tile URL
downloadTile(r) ==
    LET executed == ExecuteHTTPRequest(r)
    IN  IF executed.err # NoError
        THEN [img |-> NoValue, err |-> Wrap(executed.err, "Failed to ExecuteHTTPRequest")]
        ELSE IF executed.resp.body.kind # "png"
        THEN [img |-> NoValue, err |-> Err("image", "Failed to image.Decode")]
        ELSE [img |-> [Dx |-> TileSize, Dy |-> TileSize], err |-> NoError]

\* 2^n
RECURSIVE Pow2(_)
Pow2(n) == IF n = 0 THEN 1 ELSE 2 * Pow2(n - 1)

\* log2 of a power of two
RECURSIVE Log2(_)
Log2(n) == IF n = 1 THEN 0 ELSE 1 + Log2(n \div 2)

RECURSIVE GCD(_, _)
GCD(a, b) == IF b = 0 THEN a ELSE GCD(b, a % b)

Abs(n) == IF n < 0 THEN -n ELSE n

\* A pixel coordinate is the exact number num / den * 2^pow2, kept with num
\* and den odd and without common factor (0 is 0 / 1 * 2^0): at zoom 30 the
\* whole part alone is beyond the integers of the model.
RECURSIVE Scaled(_, _, _)
Scaled(num, den, pow2) ==
    IF num = 0 THEN [num |-> 0, den |-> 1, pow2 |-> 0]
    ELSE IF num % 2 = 0 THEN Scaled(num \div 2, den, pow2 + 1)
    ELSE IF den % 2 = 0 THEN Scaled(num, den \div 2, pow2 - 1)
    ELSE [num |-> num \div GCD(Abs(num), den), den |-> den \div GCD(Abs(num), den),
          pow2 |-> pow2]

\* int(v): the fraction is dropped, towards zero
WholePart(v) ==
    LET magnitude == IF v.pow2 >= 0 THEN (Abs(v.num) * Pow2(v.pow2)) \div v.den
                     ELSE Abs(v.num) \div (v.den * Pow2(-v.pow2))
    IN  IF v.num < 0 THEN -magnitude ELSE magnitude

\* v / 256
Over256(v) == Scaled(v.num, v.den, v.pow2 - Log2(TileSize))

\* a - b
Minus(a, b) ==
    LET pow2 == IF a.pow2 < b.pow2 THEN a.pow2 ELSE b.pow2
    IN  Scaled(a.num * b.den * Pow2(a.pow2 - pow2) - b.num * a.den * Pow2(b.pow2 - pow2),
               a.den * b.den, pow2)

\* v + float64(n)
PlusInt(v, n) == Minus(v, Scaled(-n, 1, 0))

\* The latitudes of the model are given by their place on the Mercator axis:
\* Lat = n stands for the latitude with
\* math.Log(math.Tan(math.Pi/4 + deg2rad(lat)/2)) / (2.0 * math.Pi) = n / LatUnits.
\* Lat = 0 is the equator, Lat = 4 and -4 are the edges of the square map.
LatUnits == 8

\* 256.0 * zoomFactor * (params.Lng + 180) / 360.0, Lng in whole degrees
pixelX(params) == Scaled(params.Lng + 180, 360, Log2(TileSize) + params.Zoom)

\* y without the 0.5 that puts the equator in the middle of the map
pixelYFromEquator(params) == Scaled(-params.Lat, LatUnits, Log2(TileSize) + params.Zoom)

\* 256.0 * zoomFactor * (0.5 - math.Log(math.Tan(...)) / (2.0 * math.Pi))
pixelY(params) ==
    Scaled(LatUnits - 2 * params.Lat, 2 * LatUnits, Log2(TileSize) + params.Zoom)

\* getWebMercatorPixel without the test of the zoom
getWebMercatorPixelAnyZoom(params) == [x |-> pixelX(params), y |-> pixelY(params)]

getWebMercatorPixel(params) ==
    IF params.Zoom < 0 \/ 30 < params.Zoom
    THEN [x |-> Scaled(0, 1, 0), y |-> Scaled(0, 1, 0)]
    ELSE [x |-> pixelX(params), y |-> pixelY(params)]

\* image.Rect and image.Point
Point(x, y) == [X |-> x, Y |-> y]
Rect(x0, y0, x1, y1) ==
    [Min |-> Point(IF x0 <= x1 THEN x0 ELSE x1, IF y0 <= y1 THEN y0 ELSE y1),
     Max |-> Point(IF x0 <= x1 THEN x1 ELSE x0, IF y0 <= y1 THEN y1 ELSE y0)]

\* a canvas side that leaves out the centre tile
imageSizeWithoutCentre(params) == 2 * params.AroundTiles * TileSize

\* imageSize of CreateAmeshImage
imageSize(params) == (2 * params.AroundTiles + 1) * TileSize

\* image.NewRGBA followed by the white fill: a canvas is its bounds and the
\* drawing operations applied to it, in order
NewWhiteRGBA(size) ==
    [Rect |-> Rect(0, 0, size, size),
     Ops  |-> <<[op |-> "draw.Src", rect |-> Rect(0, 0, size, size),
                 src |-> "white", alpha |-> 255]>>]

\* one more drawing operation on the canvas
Drawn(img, operation) == [img EXCEPT !.Ops = Append(@, operation)]

\* the URLs CreateAmeshImage fetches
IndexURL(i) == [kind |-> "targetTimes", n |-> i]
LightningURL(timestamp) == [kind |-> "liden", timestamp |-> timestamp]
BaseURL(zoom, tileX, tileY) == [kind |-> "osm", z |-> zoom, x |-> tileX, y |-> tileY]
RadarURL(timestamp, zoom, tileX, tileY) ==
    [kind |-> "hrpns", timestamp |-> timestamp, z |-> zoom, x |-> tileX, y |-> tileY]

\* timestamps[element] of a Go map: the empty string for a missing key
timestampOf(timestamps, element) ==
    IF element \in DOMAIN timestamps THEN timestamps[element] ELSE <<>>

\* centerTileX, centerTileY
centerTile(params) ==
    LET center == getWebMercatorPixel(params)
    IN  Point(WholePart(Over256(center.x)), WholePart(Over256(center.y)))

\* CreateAmeshImage up to the tile loop: the timestamps, the lightning data,
\* the centre tile and the white canvas
startRender(params, indexResponses, lightningResponse) ==
    LET timestamps     == getLatestTimestamps(indexResponses)
        lidenTimestamp == timestampOf(timestamps, "liden")
        lightning      == getLightningData(lightningResponse)
        indexRequests  == [i \in 1..Len(indexResponses) |->
                              [url |-> IndexURL(i),
                               ok  |-> fetchTimeData(indexResponses[i]).err = NoError]]
        lightningRequest ==
            [url |-> LightningURL(lidenTimestamp),
             ok  |-> /\ lightning.err = NoError
                     /\ ~makeHTTPRequest(lightningResponse).result.IsEmpty]
    IN  [pc             |-> "base",
         params         |-> params,
         hrpnsTimestamp |-> timestampOf(timestamps, "hrpns_nd"),
         lightningData  |-> IF lightning.err # NoError THEN <<>> ELSE lightning.points,
         centerTileX    |-> centerTile(params).X,
         centerTileY    |-> centerTile(params).Y,
         img            |-> NewWhiteRGBA(imageSize(params)),
         dx             |-> -params.AroundTiles,
         dy             |-> -params.AroundTiles,
         requests       |-> Append(indexRequests, lightningRequest),
         result         |-> NoValue]

\* tileX, tileY of the cell the loop is at
tileOf(s) == Point(s.centerTileX + s.dx, s.centerTileY + s.dy)

\* destRect of the cell the loop is at
destRect(s) ==
    Rect((s.dx + s.params.AroundTiles) * TileSize,
         (s.dy + s.params.AroundTiles) * TileSize,
         (s.dx + s.params.AroundTiles + 1) * TileSize,
         (s.dy + s.params.AroundTiles + 1) * TileSize)

\* giving up the whole image on a tile error
returnTileError(s) ==
    [s EXCEPT !.pc = "done",
              !.result = [img |-> NoValue, err |-> Err("downloadTile", "Failed to downloadTile")]]

\* leaving the row of the cell on a tile error
breakTileRow(s) ==
    IF s.dy < s.params.AroundTiles
    THEN [s EXCEPT !.pc = "base", !.dx = -s.params.AroundTiles, !.dy = s.dy + 1]
    ELSE [s EXCEPT !.pc = "rings"]

\* the loop headers of the tile loop: on to the next dx, then the next dy
nextCell(s) ==
    IF s.dx < s.params.AroundTiles
    THEN [s EXCEPT !.pc = "base", !.dx = s.dx + 1]
    ELSE IF s.dy < s.params.AroundTiles
    THEN [s EXCEPT !.pc = "base", !.dx = -s.params.AroundTiles, !.dy = s.dy + 1]
    ELSE [s EXCEPT !.pc = "rings"]

\* a failed tile is tried again: the loop stays at the cell
retrySameCell(s) == [s EXCEPT !.pc = "base"]

\* "continue" after a failed base tile
continueAfterBaseError(s) == nextCell(s)

\* "continue" after a failed radar tile
continueAfterRadarError(s) == nextCell(s)

\* the base tile step going on to the radar tile whatever the base fetch gave
baseTileStepRadarAnyway(s, r) ==
    LET got    == downloadTile(r)
        tile   == tileOf(s)
        logged == [s EXCEPT !.requests =
                      Append(@, [url |-> BaseURL(s.params.Zoom, tile.X, tile.Y),
                                 ok  |-> got.err = NoError])]
    IN  IF got.err # NoError
        THEN [logged EXCEPT !.pc = "radar"]
        ELSE [logged EXCEPT
                 !.pc = "radar",
                 !.img = Drawn(@, [op |-> "draw.Over", rect |-> destRect(s),
                                   src |-> "base", alpha |-> 255])]

\* the first half of the loop body: the base tile is fetched and drawn
baseTileStep(s, r) ==
    LET got    == downloadTile(r)
        tile   == tileOf(s)
        logged == [s EXCEPT !.requests =
                      Append(@, [url |-> BaseURL(s.params.Zoom, tile.X, tile.Y),
                                 ok  |-> got.err = NoError])]
    IN  IF got.err # NoError
        THEN continueAfterBaseError(logged)
        ELSE [logged EXCEPT
                 !.pc = "radar",
                 !.img = Drawn(@, [op |-> "draw.Over", rect |-> destRect(s),
                                   src |-> "base", alpha |-> 255])]

\* the second half of the loop body: the radar tile is fetched and overlaid
radarTileStep(s, r) ==
    LET got    == downloadTile(r)
        tile   == tileOf(s)
        logged == [s EXCEPT !.requests =
                      Append(@, [url |-> RadarURL(s.hrpnsTimestamp, s.params.Zoom,
                                                  tile.X, tile.Y),
                                 ok  |-> got.err = NoError])]
    IN  IF got.err # NoError
        THEN continueAfterRadarError(logged)
        ELSE nextCell([logged EXCEPT
                 !.img = Drawn(@, [op |-> "draw.DrawMask", rect |-> destRect(s),
                                   src |-> "radar", alpha |-> 128])])

\* the loop body for the cell at (dx, dy): rb and rr are what client.Do gives
\* for the base tile and, when it is asked for, the radar tile
compositeTile(s, rb, rr) ==
    LET afterBase == baseTileStep(s, rb)
    IN  IF afterBase.pc = "radar" THEN radarTileStep(afterBase, rr) ELSE afterBase

\* the five distance circles, 10 km to 50 km
distanceCircles(img) ==
    [img EXCEPT !.Ops = @ \o [i \in 1..5 |-> [op |-> "drawDistanceCircle", km |-> 10 * i]]]

\* the markers of the lightning data
lightningMarkers(img, lightningData) ==
    [img EXCEPT !.Ops = @ \o [i \in 1..Len(lightningData) |->
                                 [op |-> "drawLightningMarker", point |-> lightningData[i]]]]

\* CreateAmeshImage drawing the markers before the distance circles
finishImageMarkersFirst(s) ==
    LET img == distanceCircles(lightningMarkers(s.img, s.lightningData))
    IN  [s EXCEPT !.pc = "done", !.img = img, !.result = [img |-> img, err |-> NoError]]

\* CreateAmeshImage after the tile loop: the circles, the markers, the return
finishImage(s) ==
    LET img == lightningMarkers(distanceCircles(s.img), s.lightningData)
    IN  [s EXCEPT !.pc = "done", !.img = img, !.result = [img |-> img, err |-> NoError]]

\* the tile fetches of s that failed
FailedTiles(s) ==
    {i \in DOMAIN s.requests :
        s.requests[i].url.kind \in {"osm", "hrpns"} /\ ~s.requests[i].ok}

\* the requests: the equator at longitude 0, the zoom of the bot, every radius
RenderRequests ==
    {[Lat |-> 0, Lng |-> 0, Zoom |-> RenderZoom, AroundTiles |-> r] : r \in 0..MaxRadius}

\* the record the indexes hold for the radar and the lightning layers
LatestRecord == timeJSONElement(<<"2">>, <<"2">>, <<"hrpns_nd", "liden">>)

\* the answers of an index URL: three that fail, one that is parsed
FailingIndexResponses ==
    {TransportError, Response(500, InvalidJSON), Response(StatusOK, InvalidJSON)}
ParsedIndexResponse == Response(StatusOK, TimeBody(<<LatestRecord>>))

\* the answers of the three index URLs: all failing, or all parsed
RenderIndexResponses ==
    (FailingIndexResponses \X FailingIndexResponses \X FailingIndexResponses)
        \cup {<<ParsedIndexResponse, ParsedIndexResponse, ParsedIndexResponse>>}

\* the answers of the lightning URL
LightningResponses ==
    {TransportError, Response(404, InvalidJSON), Response(StatusOK, InvalidJSON),
     Response(StatusOK, ReadError),
     Response(StatusOK, GeoJSONBody(<<LightningFeature(<<0>>, 1),
                                      LightningFeature(<<0, 0>>, 1)>>))}

\* the answers of a tile URL
TileResponses ==
    {TransportError, Response(404, InvalidJSON), Response(500, PNGBody),
     Response(StatusOK, InvalidJSON), Response(StatusOK, ReadError),
     Response(StatusOK, PNGBody)}

\* the answers of the index and lightning URLs when all of them succeed
ParsedUpstream ==
    {<<ParsedIndexResponse, ParsedIndexResponse, ParsedIndexResponse>>}
        \X {r \in LightningResponses : getLightningData(r).points # <<>>}

RenderInit ==
    /\ RenderIdle
    /\ ParseIdle
    /\ LocIdle
    /\ TsIdle
    /\ LaterIdle

\* CreateAmeshImage is called: the nil check, the timestamps, the lightning
\* data and the white canvas; the upstream answers are drawn from upstream
CreateAmeshImageBegin(upstream) ==
    /\ render.pc = "idle"
    /\ \E params \in RenderRequests \cup {NilReq} :
          IF params = NilReq
          THEN render' = [render EXCEPT
                             !.pc = "done", !.params = params,
                             !.result = [img |-> NoValue,
                                         err |-> Err("ErrParamsNil", "params is nil")]]
          ELSE \E answers \in upstream :
                  render' = startRender(params, answers[1], answers[2])
    /\ UNCHANGED <<parseVars, locVars, tsVars, laterVars>>

\* one pass of the tile loop: the base tile and the radar tile of the cell at
\* (dx, dy); at most maxFailures tile fetches of the call fail
CompositeTile(maxFailures) ==
    /\ render.pc = "base"
    /\ LET mayFail == Cardinality(FailedTiles(render)) < maxFailures
       IN  \E rb \in TileResponses :
              \E rr \in (IF downloadTile(rb).err # NoError THEN {rb} ELSE TileResponses) :
                  /\ (downloadTile(rb).err # NoError \/ downloadTile(rr).err # NoError)
                         => mayFail
                  /\ render' = compositeTile(render, rb, rr)
    /\ UNCHANGED <<parseVars, locVars, tsVars, laterVars>>

\* the distance circles, the lightning markers and the return
FinishImage ==
    /\ render.pc = "rings"
    /\ render' = finishImage(render)
    /\ UNCHANGED <<parseVars, locVars, tsVars, laterVars>>

\* every outcome of the index and lightning fetches, few failing tiles
RenderNext ==
    \/ CreateAmeshImageBegin(RenderIndexResponses \X LightningResponses)
    \/ CompositeTile(MaxTileFailuresDegraded)
    \/ FinishImage

SpecRender == RenderInit /\ [][RenderNext]_vars

\* the index and lightning fetches succeeding, more failing tiles
TilesNext ==
    \/ CreateAmeshImageBegin(ParsedUpstream)
    \/ CompositeTile(MaxTileFailures)
    \/ FinishImage

SpecTiles == RenderInit /\ [][TilesNext]_vars

----------------------------------------------------------------------------
(* The command grammar, stated on the positions of the text *)

\* the positions at which a whitespace-separated token of s starts
TokenStarts(s) ==
    {i \in 1..Len(s) : ~IsSpace(s[i]) /\ (i = 1 \/ IsSpace(s[i - 1]))}

\* the position at which the token starting at i ends
TokenEnd(s, i) ==
    CHOOSE j \in i..Len(s) :
        /\ \A k \in i..j : ~IsSpace(s[k])
        /\ (j = Len(s) \/ IsSpace(s[j + 1]))

\* the tokens of s that do not begin with "@", in their order in s
NonMentionTokens(s) ==
    LET starts == {i \in TokenStarts(s) : s[i] # "@"}
        nth(k) == CHOOSE i \in starts : Cardinality({j \in starts : j < i}) = k - 1
    IN  [k \in 1..Cardinality(starts) |-> SubSeq(s, nth(k), TokenEnd(s, nth(k)))]

\* the cleaned text: the non-mention tokens joined by single spaces
CleanedText(s) == Join(NonMentionTokens(s), <<" ">>)

ParseDone == cmdResult # NoValue

\* C4: the command is recognized exactly when the cleaned text is "amesh" or
\* starts with "amesh "; "ameshi", "gameshow", the empty text and texts made
\* of mentions only are not recognized.
C4_RecognizedIffAmeshPrefix ==
    ParseDone =>
        /\ cmdResult.IsAmesh <=>
              \/ CleanedText(cmdText) = Amesh
              \/ HasPrefix(CleanedText(cmdText), AmeshSpace)
        /\ cmdText \in {Amesh \o <<"x">>, <<"x">> \o Amesh \o <<"x">>, <<>>,
                        <<"@", "x", " ", "@", "x">>, <<"@">>}
              => ~cmdResult.IsAmesh

\* a recognized command behind a mention
C4_Witness ==
    /\ ParseDone
    /\ cmdText = <<"@", " ">> \o Amesh \o <<" ", "x">>
    /\ cmdResult.IsAmesh

\* C5: the place is the default for the bare command, the non-mention tokens
\* after the leading "amesh" joined by single spaces for "amesh <place>", and
\* empty when the text is not recognized.
C5_PlaceOfCommand ==
    ParseDone =>
        LET toks == NonMentionTokens(cmdText)
            cleaned == CleanedText(cmdText)
        IN  /\ cleaned = Amesh => cmdResult.Place = DefaultPlace
            /\ HasPrefix(cleaned, AmeshSpace)
                  => cmdResult.Place = Join(Tail(toks), <<" ">>)
            /\ ~cmdResult.IsAmesh => cmdResult.Place = <<>>

\* a place behind a mention that follows the command word
C5_Witness ==
    /\ ParseDone
    /\ cmdText = Amesh \o <<" ", "@", "\t", "x">>
    /\ cmdResult.Place = <<"x">>

----------------------------------------------------------------------------
(* The location resolver *)

\* every whitespace-separated token of s, in order
AllTokens(s) ==
    LET starts == TokenStarts(s)
        nth(k) == CHOOSE i \in starts : Cardinality({j \in starts : j < i}) = k - 1
    IN  [k \in 1..Cardinality(starts) |-> SubSeq(s, nth(k), TokenEnd(s, nth(k)))]

\* a decimal literal: an optional sign, then digits around at most one point
IsFloatLiteral(tok) ==
    LET body == IF tok # <<>> /\ tok[1] \in {"+", "-"} THEN Tail(tok) ELSE tok
    IN  /\ \A i \in 1..Len(body) : IsDigit(body[i]) \/ body[i] = "."
        /\ Cardinality({i \in 1..Len(body) : body[i] = "."}) <= 1
        /\ \E i \in 1..Len(body) : IsDigit(body[i])

\* the raw place is two tokens that both parse as floats
IsCoordinatePair(place) ==
    LET toks == AllTokens(place)
    IN  Len(toks) = 2 /\ IsFloatLiteral(toks[1]) /\ IsFloatLiteral(toks[2])

\* ParseLocationWithClient has returned from a call with usable params
LocCalled ==
    /\ locResult # NoValue
    /\ locReq # NilReq
    /\ locReq.Client # "nil"

\* C6: a raw place of exactly two float tokens resolves to lat = first token,
\* lng = second token and the name "%.2f,%.2f" of the two, with no geocoding
\* request made.
C6_CoordinateInputNoGeocoding ==
    (LocCalled /\ IsCoordinatePair(locReq.Place)) =>
        LET toks == AllTokens(locReq.Place)
        IN  /\ locResult.err = NoError
            /\ locResult.loc.Lat = ParseFloat(toks[1])
            /\ locResult.loc.Lng = ParseFloat(toks[2])
            /\ locResult.loc.PlaceName =
                   FormatF2(ParseFloat(toks[1])) \o <<",">> \o FormatF2(ParseFloat(toks[2]))
            /\ locRequests = <<>>
            /\ locReq.Place = <<"1", " ", "-", ".", "1", "1", "7">>
                  => locResult.loc.PlaceName = <<"1", ".", "0", "0", ",", "-", "0", ".", "1", "2">>

\* "1 -.117" resolved to (1, -0.117) without a request
C6_Witness ==
    /\ LocCalled
    /\ locReq.Place = <<"1", " ", "-", ".", "1", "1", "7">>
    /\ locResult.err = NoError
    /\ locResult.loc.Lat.mant = 1
    /\ locResult.loc.Lng.neg
    /\ locRequests = <<>>

\* C7: any other raw place falls through to geocoding: exactly one request,
\* for the raw place (the default place when it is empty), and the outcome is
\* the geocoder's, not a coordinate-parsing failure.
C7_OtherInputIsGeocoded ==
    (LocCalled /\ ~IsCoordinatePair(locReq.Place)) =>
        /\ Len(locRequests) = 1
        /\ locRequests[1].query =
               QueryEscape(IF locReq.Place = <<>> THEN DefaultPlace ELSE locReq.Place)
        /\ locReq.Place = <<>> =>
               locRequests[1].query = <<"%", "E", "6", "%", "9", "D", "%", "B", "1",
                                        "%", "E", "4", "%", "B", "A", "%", "A", "C">>
        /\ locResponse = Response(StatusOK, JSONBody(<<GoodFeature>>)) =>
               /\ locResult.err = NoError
               /\ locResult.loc.PlaceName = GoodFeature.Name
        /\ ~ErrorIs(locResult.err, "ErrInvalidCoordinatesFormat")
        /\ ~ErrorIs(locResult.err, "strconv.ErrSyntax")

\* three numeric tokens, and two tokens of which one is not numeric, geocoded
C7_Witness ==
    /\ LocCalled
    /\ locReq.Place \in {<<"1", " ", "1", " ", "1">>, <<"1", " ", "x">>}
    /\ Len(locRequests) = 1
    /\ locResult.err = NoError

\* the geocoder was asked and gave locResponse
Geocoded == LocCalled /\ Len(locRequests) = 1

\* the answer has a status ExecuteHTTPRequest accepts
SuccessStatus(r) == r.kind = "response" /\ r.status \in {StatusOK, StatusNoContent}

WellFormedCoordinates(c) ==
    LET fields == Split(c, ",")
    IN  Len(fields) >= 2 /\ IsFloatLiteral(fields[1]) /\ IsFloatLiteral(fields[2])

\* the geocoder answered with results, the first having coordinates c
FirstResultCoordinates(c) ==
    /\ Geocoded
    /\ SuccessStatus(locResponse)
    /\ locResponse.body.kind = "json"
    /\ locResponse.body.Feature # <<>>
    /\ locResponse.body.Feature[1].Coordinates = c

\* C9: a malformed coordinate string of the first result (not at least two
\* comma-separated numeric fields) fails with the invalid-coordinate-format kind.
C9_MalformedCoordinatesKind ==
    \A c \in CoordStrings :
        (FirstResultCoordinates(c) /\ ~WellFormedCoordinates(c))
            => ErrorIs(locResult.err, "ErrInvalidCoordinatesFormat")

----------------------------------------------------------------------------
(* Timestamp discovery *)

\* the index URLs that were fetched and parsed
ParsedIndexes ==
    {i \in 1..NumIndexURLs : /\ SuccessStatus(tsResponses[i])
                  /\ tsResponses[i].body.kind = "timeJSON"}

\* the records of the fetched and parsed indexes
ParsedRecords ==
    UNION {{tsResponses[i].body.records[k] : k \in 1..Len(tsResponses[i].body.records)} :
           i \in ParsedIndexes}

ElementsOf(rec) == {rec.Elements[j] : j \in 1..Len(rec.Elements)}

\* a is at most b in the order of strings
StringLeq(a, b) ==
    \/ a = b
    \/ \E k \in 1..Len(b) :
          /\ k - 1 <= Len(a)
          /\ SubSeq(a, 1, k - 1) = SubSeq(b, 1, k - 1)
          /\ (k > Len(a) \/ DigitValue(a[k]) < DigitValue(b[k]))

\* C10: every element name of a parsed index is mapped to the greatest
\* baseTime of the records with baseTime = validTime that hold it ("" when
\* there is none); failed indexes are skipped, and with all three failed no
\* element has a timestamp.
C10_LatestTimestampPerElement ==
    tsResult # NoValue =>
        /\ DOMAIN tsResult = UNION {ElementsOf(rec) : rec \in ParsedRecords}
        /\ \A e \in DOMAIN tsResult :
              LET valid == {rec.BaseTime : rec \in
                               {r \in ParsedRecords :
                                   r.BaseTime = r.ValidTime /\ e \in ElementsOf(r)}}
              IN  IF valid = {} THEN tsResult[e] = <<>>
                  ELSE /\ tsResult[e] \in valid
                       /\ \A t \in valid : StringLeq(t, tsResult[e])
        /\ ParsedIndexes = {} => DOMAIN tsResult = {}

\* the first index fails, the other two hold "10" and "2" for hrpns_nd
C10_Witness ==
    /\ tsResult # NoValue
    /\ tsResponses[1] = Response(500, InvalidJSON)
    /\ ParsedIndexes = {2, 3}
    /\ tsResponses[2].body.records # <<>>
    /\ tsResponses[3].body.records # <<>>
    /\ tsResponses[2].body.records[1].BaseTime = <<"1", "0">>
    /\ "hrpns_nd" \in DOMAIN tsResult
    /\ tsResult["hrpns_nd"] = <<"2">>

----------------------------------------------------------------------------
(* The compositor: what a call of CreateAmeshImage returns *)

\* the cells of the grid of a request, as (dx, dy)
GridCells(params) ==
    (-params.AroundTiles..params.AroundTiles) \X (-params.AroundTiles..params.AroundTiles)

\* the requests of s for the base tile, and for the radar tile, of the cell c
BaseRequestsOf(s, c) ==
    {i \in DOMAIN s.requests :
        /\ s.requests[i].url.kind = "osm"
        /\ s.requests[i].url.x = s.centerTileX + c[1]
        /\ s.requests[i].url.y = s.centerTileY + c[2]}
RadarRequestsOf(s, c) ==
    {i \in DOMAIN s.requests :
        /\ s.requests[i].url.kind = "hrpns"
        /\ s.requests[i].url.x = s.centerTileX + c[1]
        /\ s.requests[i].url.y = s.centerTileY + c[2]}

\* the 256 x 256 block of the canvas the cell c is drawn on lies in rect
BlockIn(params, c, rect) ==
    /\ rect.Min.X <= (c[1] + params.AroundTiles) * 256
    /\ (c[1] + params.AroundTiles + 1) * 256 <= rect.Max.X
    /\ rect.Min.Y <= (c[2] + params.AroundTiles) * 256
    /\ (c[2] + params.AroundTiles + 1) * 256 <= rect.Max.Y

\* what was drawn on the block of the cell c, in order
LayersOn(ops, params, c) ==
    LET covering == SelectSeq(ops, LAMBDA o : /\ "rect" \in DOMAIN o
                                              /\ BlockIn(params, c, o.rect))
    IN  [i \in 1..Len(covering) |-> covering[i].src]

RenderReturned == render.pc = "done"

\* C1: a call with non-nil params returns a canvas and a nil error whatever
\* the index, lightning, base tile and radar tile fetches did; the one error
\* CreateAmeshImage returns is the one for nil params.
C1_FetchFailuresNeverFailTheRender ==
    RenderReturned =>
        /\ render.params # NilReq =>
               /\ render.result.img # NoValue
               /\ render.result.err = NoError
        /\ render.result.err # NoError =>
               /\ render.params = NilReq
               /\ ErrorIs(render.result.err, "ErrParamsNil")

\* every fetch of a call has failed: the three indexes, the lightning data and
\* the one base tile of radius 0
C1_Witness ==
    /\ RenderReturned
    /\ render.params # NilReq
    /\ Len(render.requests) = 5
    /\ \A i \in DOMAIN render.requests : ~render.requests[i].ok
    /\ render.result.img # NoValue
    /\ render.result.err = NoError

\* C2: the canvas is a square of side (2r+1)*256 for every radius r >= 0 and
\* every outcome of the fetches: 256 x 256 for r = 0.
C2_CanvasIsSquareOfGridSide ==
    (RenderReturned /\ render.params # NilReq) =>
        LET r      == render.params.AroundTiles
            bounds == render.result.img.Rect
        IN  /\ bounds.Max.X - bounds.Min.X = (2 * r + 1) * 256
            /\ bounds.Max.Y - bounds.Min.Y = (2 * r + 1) * 256
            /\ r = 0 => bounds = Rect(0, 0, 256, 256)

\* a canvas of radius 1 returned after a fetch failed
C2_Witness ==
    /\ RenderReturned
    /\ render.params # NilReq
    /\ render.params.AroundTiles = 1
    /\ render.result.img.Rect = Rect(0, 0, 768, 768)
    /\ \E i \in DOMAIN render.requests : ~render.requests[i].ok

\* the tile loop of a call is over, rings and markers not yet drawn
TilesComposited == render.pc = "rings"

\* C3: a failed tile fetch skips that tile alone: every cell of the grid is
\* visited once, a cell whose base tile failed keeps the white background and
\* its radar tile is not asked for, a cell whose radar tile failed has its base
\* tile alone, and every other cell has both.
C3_TileFailuresAreIndependent ==
    TilesComposited =>
        \A c \in GridCells(render.params) :
            LET base   == BaseRequestsOf(render, c)
                radar  == RadarRequestsOf(render, c)
                layers == LayersOn(render.img.Ops, render.params, c)
            IN  /\ Cardinality(base) = 1
                /\ \A i \in base :
                      IF ~render.requests[i].ok
                      THEN /\ radar = {}
                           /\ layers = <<"white">>
                      ELSE /\ Cardinality(radar) = 1
                           /\ \A j \in radar :
                                 layers = IF render.requests[j].ok
                                          THEN <<"white", "base", "radar">>
                                          ELSE <<"white", "base">>

\* radius 1: the base tile of the first cell and the radar tile of the centre
\* cell failed, the last cell has both tiles
C3_Witness ==
    /\ TilesComposited
    /\ render.params.AroundTiles = 1
    /\ LayersOn(render.img.Ops, render.params, <<-1, -1>>) = <<"white">>
    /\ LayersOn(render.img.Ops, render.params, <<0, 0>>) = <<"white", "base">>
    /\ LayersOn(render.img.Ops, render.params, <<1, 1>>) = <<"white", "base", "radar">>
    /\ Cardinality(FailedTiles(render)) = 2

----------------------------------------------------------------------------
(* lib/amesh: getLightningData called on its own *)

\* the coordinate arrays of a feature: none, one, two or three values
CoordinateLists == {<<>>, <<139>>, <<139, 35>>, <<35, 139>>, <<139, 35, 10>>, <<35, 10, 139>>}
LightningTypes == {1, 2}
Features == {LightningFeature(c, t) : c \in CoordinateLists, t \in LightningTypes}
FeatureLists == UNION {[1..n -> Features] : n \in 0..MaxFeatures}

\* what client.Do gives for the lightning URL
LightningStatuses == {StatusOK, StatusNoContent, 201, 404, 500}
LightningAnswers ==
    {TransportError}
    \cup {Response(st, GeoJSONBody(fs)) : st \in LightningStatuses, fs \in FeatureLists}
    \cup {Response(StatusOK, [kind |-> "notJSON"]), Response(StatusOK, [kind |-> "readError"])}

LightningInit ==
    /\ EarlierIdle /\ FinalIdle
    /\ BotIdle /\ ConnIdle /\ ProjIdle /\ LineIdle
    /\ \E r \in LightningAnswers :
           lightningFetch = [pc |-> "called", response |-> r, result |-> NoValue]

GetLightningData ==
    /\ lightningFetch.pc = "called"
    /\ lightningFetch' = [lightningFetch EXCEPT !.pc = "returned",
                              !.result = getLightningData(lightningFetch.response)]
    /\ UNCHANGED <<earlierVars, finalVars, bot, conn, proj, line>>

SpecLightning == LightningInit /\ [][GetLightningData]_vars

----------------------------------------------------------------------------
(* claims about getLightningData *)

LightningReturned == lightningFetch # NoValue /\ lightningFetch.pc = "returned"

\* the features of the answered document that carry at least two coordinates
FeaturesWithPair(r) == SelectSeq(r.body.Features, LAMBDA f : Len(f.Coordinates) >= 2)

----------------------------------------------------------------------------
(* lib/misskey: Bot.apiRequest, AddReaction, UploadFile, CreateNote and
   ProcessAmeshCommand; main: messageHandler *)

\* MISSKEY_API_TOKEN
BotToken == "MISSKEY_API_TOKEN"

\* the reaction that marks a note as being processed (U+1F440)
ProcessingReaction == "U+1F440"

\* the text messageHandler replies with when ProcessAmeshCommand returns an
\* error; a text is the tuple of the pieces it is formatted from
ApologyText == <<"moushiwake nai ppo. amesh command no shori chuu ni error ga hassei shita ppo">>

\* the content warning CreateNote sets when the original note has one
HiddenCW == "kakusu ppo!"

\* a non-nil *string
StringPtr(value) == [value |-> value]

Note(id, visibility, cw, text) ==
    [ID |-> id, Visibility |-> visibility, CW |-> cw, Text |-> text]
ProcessAmeshCommandRequest(note, place, token) ==
    [Note |-> note, Place |-> place, YahooAPIToken |-> token]
CreateNoteRequest(text, fileIDs, originalNote) ==
    [Text |-> text, FileIDs |-> fileIDs, OriginalNote |-> originalNote]

\* the data a caller hands to apiRequest, with its Go type
StringMap(fields) == [gotype |-> "map[string]string", fields |-> fields]
InterfaceMap(fields) == [gotype |-> "map[string]interface{}", fields |-> fields]

\* m[k] = v
WithKey(m, k, v) == [x \in DOMAIN m \cup {k} |-> IF x = k THEN v ELSE m[x]]

\* the payload apiRequest marshals: the token, and the pairs of data when
\* data is a map[string]interface{}
apiPayload(data) ==
    IF data.gotype = "map[string]interface{}"
    THEN [k \in {"i"} \cup DOMAIN data.fields |->
             IF k \in DOMAIN data.fields THEN data.fields[k] ELSE BotToken]
    ELSE [k \in {"i"} |-> BotToken]

\* a request handed to the HTTP client
APICall(endpoint, payload) == [endpoint |-> endpoint, payload |-> payload]

\* apiRequest, r being what client.Do gives
apiRequest(endpoint, data, r) ==
    LET executed == ExecuteHTTPRequest(r)
        requests == <<APICall(endpoint, apiPayload(data))>>
    IN  IF executed.err # NoError
        THEN [resp |-> NoValue, err |-> Wrap(executed.err, "Failed to executeHTTPRequest"),
              requests |-> requests]
        ELSE [resp |-> executed.resp, err |-> NoError, requests |-> requests]

\* the bodies of the answers of the Misskey API
EmptyBody == [kind |-> "empty"]
FileJSON(id) == [kind |-> "json", id |-> id]
CreatedNoteJSON == [kind |-> "json", createdNote |-> "note"]

\* json.NewDecoder(resp.Body).Decode: an error unless the body is a JSON document
decodeJSON(body) ==
    IF body.kind = "json" THEN NoError ELSE Err("json", "Failed to json.NewDecoder")

\* Bot.AddReaction
AddReaction(noteID, reaction, r) ==
    LET sent == apiRequest("notes/reactions/create",
                           StringMap([noteId |-> noteID, reaction |-> reaction]), r)
    IN  IF sent.err # NoError
        THEN [err |-> Wrap(sent.err, "Failed to apiRequest"), requests |-> sent.requests]
        ELSE [err |-> NoError, requests |-> sent.requests]

\* Bot.CreateNote
CreateNote(req, r) ==
    IF req = NilReq \/ req.OriginalNote = NilReq
    THEN [err |-> Err("ErrParamsNil", "params is nil"), requests |-> <<>>]
    ELSE
    LET original   == req.OriginalNote
        visibility == IF original.Visibility = "public" THEN "home"
                      ELSE original.Visibility
        data       == [text |-> req.Text, visibility |-> visibility]
        withReply  == IF original.ID # "" THEN WithKey(data, "replyId", original.ID)
                      ELSE data
        withFiles  == IF 0 < Len(req.FileIDs) THEN WithKey(withReply, "fileIds", req.FileIDs)
                      ELSE withReply
        withCW     == IF original.CW # NilReq THEN WithKey(withFiles, "cw", HiddenCW)
                      ELSE withFiles
        sent       == apiRequest("notes/create", InterfaceMap(withCW), r)
    IN  IF sent.err # NoError
        THEN [err |-> Wrap(sent.err, "Failed to apiRequest"), requests |-> sent.requests]
        ELSE IF decodeJSON(sent.resp.body) # NoError
        THEN [err |-> Wrap(decodeJSON(sent.resp.body), "Failed to json.NewDecoder"),
              requests |-> sent.requests]
        ELSE [err |-> NoError, requests |-> sent.requests]

\* the File a JSON document decodes to: ID is "" when the document has no id
File(body) == [ID |-> IF "id" \in DOMAIN body THEN body.id ELSE ""]

\* Bot.UploadFile
UploadFile(reader, fileName, r) ==
    LET requests == <<APICall("drive/files/create",
                              [i |-> BotToken, file |-> reader, fileName |-> fileName])>>
        executed == ExecuteHTTPRequest(r)
    IN  IF executed.err # NoError
        THEN [file |-> NoValue, err |-> Wrap(executed.err, "Failed to executeHTTPRequest"),
              requests |-> requests]
        ELSE IF decodeJSON(executed.resp.body) # NoError
        THEN [file |-> NoValue,
              err |-> Wrap(decodeJSON(executed.resp.body), "Failed to json.NewDecoder"),
              requests |-> requests]
        ELSE [file |-> File(executed.resp.body), err |-> NoError, requests |-> requests]

\* the radius of the grid CreateImageReaderWithClient asks for
ReaderAroundTiles == 2

\* the first half of CreateImageReaderWithClient: the call of CreateAmeshImage,
\* which returns an image for every non-nil params
readerImage(location) ==
    IF location = NilReq
    THEN [img |-> NoValue, err |-> Err("ErrParamsNil", "params is nil")]
    ELSE [img |-> [Lat |-> location.Lat, Lng |-> location.Lng, Zoom |-> RenderZoom,
                   AroundTiles |-> ReaderAroundTiles],
          err |-> NoError]

\* the second half: png.Encode into a buffer, encodes telling whether it succeeds
encodeImage(img, encodes) ==
    IF ~encodes
    THEN [reader |-> NoValue, err |-> Err("png.Encode", "Failed to png.Encode")]
    ELSE [reader |-> [kind |-> "png", img |-> img], err |-> NoError]

\* strings.ReplaceAll(s, " ", "_")
ReplaceSpaces(s) == [i \in 1..Len(s) |-> IF s[i] = " " THEN "_" ELSE s[i]]

\* GenerateFileName; the seconds of the clock are not modelled
GenerateFileName(location) ==
    <<"a", "m", "e", "s", "h", "_">> \o ReplaceSpaces(location.PlaceName) \o <<"_">>

\* the text of the reply that carries the image
radarReplyText(location) ==
    <<"U+1F4E1 ", location.PlaceName, " (", location.Lat, ", ", location.Lng,
      ") no amagumo radar gazou da ppo">>

\* the file IDs of the reply that carries the image
replyFileIDs(uploadedFile) == <<uploadedFile.ID>>

\* ProcessAmeshCommand returning err
returnError(b, err) == [b EXCEPT !.pc = "returned", !.err = err]

\* the record that a step of ProcessAmeshCommand returned, with or without an error
stepReturned(b, step, err) == [b EXCEPT !.steps = Append(@, [step |-> step, err |-> err])]

\* the parameter tests of ProcessAmeshCommand
validateRequestNoToken(req) ==
    IF req = NilReq \/ req.Note = NilReq THEN Err("ErrParamsNil", "params is nil")
    ELSE NoError

validateRequest(req) ==
    IF req = NilReq \/ req.Note = NilReq THEN Err("ErrParamsNil", "params is nil")
    ELSE IF req.YahooAPIToken = <<>>
    THEN Err("ErrParamsEmptyString", "params cannot be empty string")
    ELSE NoError

\* ProcessAmeshCommand up to the return of AddReaction, r answering the reaction request
processBegin(b, r) ==
    LET invalid == validateRequest(b.req)
        reacted == AddReaction(b.req.Note.ID, ProcessingReaction, r)
        sent    == stepReturned([b EXCEPT !.calls = @ \o reacted.requests],
                                "reaction", reacted.err)
    IN  IF invalid # NoError THEN returnError(b, invalid)
        ELSE IF reacted.err # NoError
        THEN returnError(sent, Wrap(reacted.err, "Failed to AddReaction"))
        ELSE [sent EXCEPT !.pc = "location"]

\* amesh.ParseLocation, r answering the geocoding request if one is made
parseLocationStep(b, r) ==
    LET located == ParseLocationWithClient(LocParams("client", b.req.Place), r)
        sent    == stepReturned(
                       [b EXCEPT !.calls = @ \o [i \in 1..Len(located.requests) |->
                                                   APICall("geocode", located.requests[i])]],
                       "location", located.err)
    IN  IF located.err # NoError
        THEN returnError(sent, Wrap(located.err, "Failed to amesh.ParseLocation"))
        ELSE [sent EXCEPT !.pc = "render", !.location = located.loc]

\* amesh.CreateImageReader: CreateAmeshImage, whose fetches are one entry of the log
renderStep(b) ==
    LET rendered == readerImage(b.location)
        sent     == stepReturned([b EXCEPT !.calls = @ \o <<APICall("tiles", rendered.img)>>],
                                 "render", rendered.err)
    IN  IF rendered.err # NoError
        THEN returnError(stepReturned(b, "render", rendered.err), rendered.err)
        ELSE [sent EXCEPT !.pc = "encode", !.img = rendered.img]

\* amesh.CreateImageReader: png.Encode, and amesh.GenerateFileName
encodeStepIgnoringError(b, encodes) ==
    [stepReturned(b, "encode", encodeImage(b.img, encodes).err)
        EXCEPT !.pc = "upload", !.imageReader = encodeImage(b.img, encodes).reader,
               !.fileName = GenerateFileName(b.location)]

encodeStep(b, encodes) ==
    LET encoded == encodeImage(b.img, encodes)
        tried   == stepReturned(b, "encode", encoded.err)
    IN  IF encoded.err # NoError
        THEN returnError(tried, Wrap(encoded.err, "Failed to amesh.CreateImageReader"))
        ELSE [tried EXCEPT !.pc = "upload", !.imageReader = encoded.reader,
                           !.fileName = GenerateFileName(b.location)]

\* bot.UploadFile, r answering the upload
uploadStep(b, r) ==
    LET uploaded == UploadFile(b.imageReader, b.fileName, r)
        sent     == stepReturned([b EXCEPT !.calls = @ \o uploaded.requests],
                                 "upload", uploaded.err)
    IN  IF uploaded.err # NoError
        THEN returnError(sent, Wrap(uploaded.err, "Failed to UploadFile"))
        ELSE [sent EXCEPT !.pc = "reply", !.uploadedFile = uploaded.file]

\* bot.CreateNote with the image, r answering the note creation
replyStep(b, r) ==
    LET replied == CreateNote(CreateNoteRequest(radarReplyText(b.location),
                                                replyFileIDs(b.uploadedFile),
                                                b.req.Note), r)
        sent    == stepReturned([b EXCEPT !.calls = @ \o replied.requests],
                                "reply", replied.err)
    IN  IF replied.err # NoError
        THEN returnError(sent, Wrap(replied.err, "Failed to CreateNote"))
        ELSE returnError(sent, NoError)

\* messageHandler appending the error to the apology, as the first main did
handlerWithErrorDetail(b, r) ==
    LET replied == CreateNote(CreateNoteRequest(ApologyText \o <<": ", b.err.msg>>, <<>>,
                                                b.note), r)
    IN  IF b.err # NoError
        THEN [b EXCEPT !.pc = "done", !.calls = @ \o replied.requests,
                       !.replyErr = replied.err]
        ELSE [b EXCEPT !.pc = "done"]

\* messageHandler after ProcessAmeshCommand returned, r answering the apology
handlerAfterProcess(b, r) ==
    LET replied == CreateNote(CreateNoteRequest(ApologyText, <<>>, b.note), r)
    IN  IF b.err # NoError
        THEN [b EXCEPT !.pc = "done", !.calls = @ \o replied.requests,
                       !.replyErr = replied.err]
        ELSE [b EXCEPT !.pc = "done"]

\* the notes a mention carries
NoteTexts == {Amesh, AmeshSpace \o <<"x">>, AmeshSpace \o <<"1", " ", "7">>, <<"x">>}
MentionNotes ==
    {Note(id, visibility, cw, text) :
        id \in {"n1", "n2"}, visibility \in {"public", "home", "followers"},
        cw \in {NilReq, StringPtr("cw")}, text \in NoteTexts}

\* the requests ProcessAmeshCommand is called with directly
DirectRequests ==
    {NilReq}
    \cup {ProcessAmeshCommandRequest(n, <<"x">>, token) :
             n \in {NilReq, Note("n1", "public", NilReq, AmeshSpace \o <<"x">>)},
             token \in {<<>>, APIKey}}

\* everything client.Do can give to a request of the Misskey API
MisskeyAnswers ==
    {TransportError, Response(500, InvalidJSON), Response(StatusNoContent, EmptyBody),
     Response(StatusOK, InvalidJSON), Response(StatusOK, CreatedNoteJSON),
     Response(StatusOK, FileJSON("f1")), Response(StatusOK, FileJSON("f2"))}

BotState(pc, caller, note, req) ==
    [pc |-> pc, caller |-> caller, note |-> note, req |-> req, calls |-> <<>>,
     steps |-> <<>>,
     location |-> NoValue, img |-> NoValue, imageReader |-> NoValue,
     fileName |-> NoValue, uploadedFile |-> NoValue, err |-> NoValue,
     replyErr |-> NoValue]

BotInit ==
    /\ EarlierIdle /\ FinalIdle
    /\ LightningIdle /\ ConnIdle /\ ProjIdle /\ LineIdle
    /\ bot \in {BotState("received", "messageHandler", n, NoValue) : n \in MentionNotes}
               \cup {BotState("process", "direct", NoValue, q) : q \in DirectRequests}

BotUnchanged == UNCHANGED <<earlierVars, finalVars, lightningFetch, conn, proj, line>>

\* messageHandler up to the call of ProcessAmeshCommand
MessageHandler ==
    /\ bot.pc = "received"
    /\ LET parseResult == ParseAmeshCommand(bot.note.Text)
       IN  bot' = IF ~parseResult.IsAmesh THEN [bot EXCEPT !.pc = "done"]
                  ELSE [bot EXCEPT !.pc = "process",
                                   !.req = ProcessAmeshCommandRequest(bot.note,
                                               parseResult.Place, APIKey)]
    /\ BotUnchanged

ProcessBegin ==
    /\ bot.pc = "process"
    /\ \E r \in MisskeyAnswers : bot' = processBegin(bot, r)
    /\ BotUnchanged

ParseLocation ==
    /\ bot.pc = "location"
    /\ \E r \in FewGeocodeResponses : bot' = parseLocationStep(bot, r)
    /\ BotUnchanged

CreateImage ==
    /\ bot.pc = "render"
    /\ bot' = renderStep(bot)
    /\ BotUnchanged

EncodeImage ==
    /\ bot.pc = "encode"
    /\ \E encodes \in BOOLEAN : bot' = encodeStep(bot, encodes)
    /\ BotUnchanged

Upload ==
    /\ bot.pc = "upload"
    /\ \E r \in MisskeyAnswers : bot' = uploadStep(bot, r)
    /\ BotUnchanged

Reply ==
    /\ bot.pc = "reply"
    /\ \E r \in MisskeyAnswers : bot' = replyStep(bot, r)
    /\ BotUnchanged

HandlerReturn ==
    /\ bot.pc = "returned"
    /\ bot.caller = "messageHandler"
    /\ \E r \in MisskeyAnswers : bot' = handlerAfterProcess(bot, r)
    /\ BotUnchanged

BotNext ==
    \/ MessageHandler
    \/ ProcessBegin
    \/ ParseLocation
    \/ CreateImage
    \/ EncodeImage
    \/ Upload
    \/ Reply
    \/ HandlerReturn

SpecBot == BotInit /\ [][BotNext]_vars

----------------------------------------------------------------------------
(* claims about ProcessAmeshCommand and messageHandler *)

\* the steps of the chain in the order of the orchestrator
Chain == <<"reaction", "location", "render", "encode", "upload", "reply">>

\* the requests of the log sent to an endpoint
CallsTo(endpoint) == SelectSeq(bot.calls, LAMBDA c : c.endpoint = endpoint)

\* the note creations of the log that are not the apology
ImageReplies ==
    SelectSeq(bot.calls, LAMBDA c : c.endpoint = "notes/create" /\ c.payload.text # ApologyText)

StepSucceeded(step) ==
    \E i \in 1..Len(bot.steps) : bot.steps[i].step = step /\ bot.steps[i].err = NoError

\* C12: the steps that have returned are, in order, the first steps of the chain
\* reaction, location, render, encode, upload, reply, and every one before the
\* last returned without error; an upload is sent only with location, render
\* and encoding done, the reply with the image only with the upload done, and
\* its file IDs are exactly the ID the upload returned
C12_StepsInOrderEachAfterSuccess ==
    bot # NoValue =>
        /\ Len(bot.steps) <= Len(Chain)
        /\ \A i \in 1..Len(bot.steps) :
               /\ bot.steps[i].step = Chain[i]
               /\ i < Len(bot.steps) => bot.steps[i].err = NoError
        /\ Len(CallsTo("drive/files/create")) <= 1
        /\ CallsTo("drive/files/create") # <<>> =>
               /\ StepSucceeded("reaction") /\ StepSucceeded("location")
               /\ StepSucceeded("render") /\ StepSucceeded("encode")
               /\ bot.location # NoValue /\ bot.imageReader # NoValue
               /\ CallsTo("drive/files/create")[1].payload.file = bot.imageReader
        /\ Len(ImageReplies) <= 1
        /\ ImageReplies # <<>> =>
               /\ StepSucceeded("upload")
               /\ bot.uploadedFile # NoValue
               /\ ImageReplies[1].payload.fileIds = <<bot.uploadedFile.ID>>
               /\ ImageReplies[1] = bot.calls[Len(CallsTo("notes/reactions/create"))
                                              + Len(CallsTo("geocode")) + 3]

\* a command answered with the image of the file the upload returned
C12_Witness ==
    /\ bot # NoValue
    /\ bot.pc = "returned" /\ bot.err = NoError
    /\ Len(bot.steps) = Len(Chain)
    /\ ImageReplies # <<>>
    /\ ImageReplies[1].payload.fileIds = <<"f2">>

\* messageHandler has returned after ProcessAmeshCommand returned an error
HandledFailure ==
    /\ bot # NoValue
    /\ bot.caller = "messageHandler"
    /\ bot.pc = "done"
    /\ bot.err \notin {NoValue, NoError}

\* C13: after a failure at whichever step, the last request of the handler is
\* a note creation that replies to the original note with the fixed apology
\* text and nothing else: no file, no part of the error
C13_FailureIsAnsweredWithTheApology ==
    HandledFailure =>
        LET last == bot.calls[Len(bot.calls)]
        IN  /\ bot.calls # <<>>
            /\ last.endpoint = "notes/create"
            /\ last.payload.text = ApologyText
            /\ last.payload.replyId = bot.note.ID
            /\ DOMAIN last.payload \subseteq {"i", "text", "visibility", "replyId", "cw"}

\* the upload failed after the image was made, and the apology went out
C13_Witness ==
    /\ HandledFailure
    /\ bot.err.msg = "Failed to UploadFile"
    /\ bot.replyErr = NoError
    /\ bot.calls[Len(bot.calls)].payload.text = ApologyText

\* the reaction request was answered with a failure
ReactionFailed ==
    /\ bot # NoValue
    /\ bot.steps # <<>>
    /\ bot.steps[1].step = "reaction"
    /\ bot.steps[1].err # NoError

\* C14: a failed reaction does not end the command: ProcessAmeshCommand does
\* not return before the location has been resolved
C14_ReactionIsBestEffort ==
    (ReactionFailed /\ bot.pc \in {"returned", "done"}) =>
        \E i \in 1..Len(bot.steps) : bot.steps[i].step = "location"

\* ProcessAmeshCommand has been entered and has gone past its parameter tests
PastParameterTests ==
    /\ bot # NoValue
    /\ bot.req # NoValue
    /\ bot.pc # "process"

\* C15: a nil request or a nil note gives ErrParamsNil, an empty geocoding
\* token gives ErrParamsEmptyString, and in both cases no request of any kind
\* has been sent and no step has been taken when the call returns
C15_ParametersRejectedBeforeAnyRequest ==
    PastParameterTests =>
        /\ (bot.req = NilReq \/ bot.req.Note = NilReq) =>
               /\ bot.pc = "returned"
               /\ bot.err = Err("ErrParamsNil", "params is nil")
               /\ bot.calls = <<>> /\ bot.steps = <<>>
        /\ (bot.req # NilReq /\ bot.req.Note # NilReq /\ bot.req.YahooAPIToken = <<>>) =>
               /\ bot.pc = "returned"
               /\ ErrorIs(bot.err, "ErrParamsEmptyString")
               /\ bot.calls = <<>> /\ bot.steps = <<>>

\* a call with a note and an empty token has returned
C15_Witness ==
    /\ PastParameterTests
    /\ bot.req # NilReq
    /\ bot.req.Note # NilReq
    /\ bot.req.YahooAPIToken = <<>>
    /\ bot.pc = "returned"

----------------------------------------------------------------------------
(* main: the reconnect loop around Bot.Listen and Bot.Connect *)

\* time.Sleep(5 * time.Second) before a reconnection attempt
ReconnectWait == 5
\* time.Sleep(10 * time.Second) after a failed reconnection attempt
RetryWait == 10

\* the loop leaving main after a failed Connect, as the first Connect of main does
exitAfterConnectError(c) == [c EXCEPT !.pc = "exited"]

\* Connect returned an error: it is logged and the loop sleeps
afterConnectError(c) ==
    [c EXCEPT !.pc = "sleep10",
              !.failures = IF @ < MaxFailedAttempts THEN @ + 1 ELSE @]

\* the start of Bot.Connect: the time slept since the attempt before is noted
attemptStarted(c) ==
    [c EXCEPT !.attempts = IF @ < MaxFailedAttempts THEN @ + 1 ELSE @,
              !.waitBefore = c.waited, !.waitBeforePrevious = c.waitBefore,
              !.waited = 0]

\* the state after main's first Connect: listening on the first connection
ConnInit ==
    /\ EarlierIdle /\ FinalIdle
    /\ LightningIdle /\ BotIdle /\ ProjIdle /\ LineIdle
    /\ conn = [pc |-> "listen", WSConn |-> 1, alive |-> TRUE, subscribed |-> TRUE,
               reachable |-> TRUE, losses |-> 0, lostConn |-> 0, reads |-> 0,
               failures |-> 0, attempts |-> 0, waited |-> 0, waitBefore |-> 0,
               waitBeforePrevious |-> 0]

ConnUnchanged == UNCHANGED <<earlierVars, finalVars, lightningFetch, bot, proj, line>>

\* Listen: ReadJSON gives a message of the stream
ReadMessage ==
    /\ conn.pc = "listen"
    /\ conn.alive
    /\ conn.reads < MaxMessages
    /\ conn' = [conn EXCEPT !.reads = @ + 1]
    /\ ConnUnchanged

\* Listen: ReadJSON fails on the lost connection and Listen returns the error
ListenFails ==
    /\ conn.pc = "listen"
    /\ ~conn.alive
    /\ conn' = [conn EXCEPT !.pc = "sleep5", !.lostConn = conn.WSConn]
    /\ ConnUnchanged

\* main: time.Sleep(5 * time.Second)
SleepBeforeConnect ==
    /\ conn.pc = "sleep5"
    /\ conn' = [conn EXCEPT !.pc = "dial", !.waited = @ + ReconnectWait]
    /\ ConnUnchanged

\* Connect: dialer.Dial; on success bot.WSConn is the new connection
Dial ==
    /\ conn.pc = "dial"
    /\ conn' = IF conn.reachable
               THEN [attemptStarted(conn) EXCEPT !.pc = "subscribe", !.WSConn = @ + 1,
                                                 !.alive = TRUE, !.subscribed = FALSE,
                                                 !.reads = 0]
               ELSE afterConnectError(attemptStarted(conn))
    /\ ConnUnchanged

\* Connect: WriteJSON of the connect message for the main channel
Subscribe ==
    /\ conn.pc = "subscribe"
    /\ conn' = IF conn.alive
               THEN [conn EXCEPT !.pc = "listen", !.subscribed = TRUE, !.failures = 0,
                                 !.attempts = 0]
               ELSE afterConnectError(conn)
    /\ ConnUnchanged

\* main: time.Sleep(10 * time.Second), then the loop calls Listen again
SleepAfterFailure ==
    /\ conn.pc = "sleep10"
    /\ conn' = [conn EXCEPT !.pc = "listen", !.waited = @ + RetryWait]
    /\ ConnUnchanged

\* the network: the current connection breaks
ConnectionLost ==
    /\ conn.alive
    /\ conn.losses < MaxLosses
    /\ conn' = [conn EXCEPT !.alive = FALSE, !.losses = @ + 1]
    /\ ConnUnchanged

\* the network: the server stops or starts accepting connections
ServerDown ==
    /\ conn.reachable
    /\ conn' = [conn EXCEPT !.reachable = FALSE]
    /\ ConnUnchanged

ServerUp ==
    /\ ~conn.reachable
    /\ conn' = [conn EXCEPT !.reachable = TRUE]
    /\ ConnUnchanged

\* the steps of main and of the calls it makes
MainLoop ==
    \/ ReadMessage
    \/ ListenFails
    \/ SleepBeforeConnect
    \/ Dial
    \/ Subscribe
    \/ SleepAfterFailure

Network == ConnectionLost \/ ServerDown \/ ServerUp

ConnNext == MainLoop \/ Network

SpecConn == ConnInit /\ [][ConnNext]_vars

\* a sleep ends, a dial returns within the handshake timeout, and a read or
\* write on a lost connection returns: main is never stopped for ever
SpecConnFair == SpecConn /\ WF_vars(MainLoop)

----------------------------------------------------------------------------
(* claims about the reconnect loop *)

ConnTypeOK == conn.pc \in {"listen", "sleep5", "dial", "subscribe", "sleep10"}

\* Listen has just returned an error
ListenReturnedError == conn.pc = "sleep5"
\* a reconnection attempt is about to be made
Reconnecting == conn.pc = "dial"
\* a reconnection attempt has just failed
ConnectReturnedError == conn.pc = "sleep10"
\* Listen reads from a live, subscribed connection other than the one lost
ListeningAfresh ==
    /\ conn.pc = "listen"
    /\ conn.alive /\ conn.subscribed
    /\ conn.WSConn # conn.lostConn
ServerReachable == conn.reachable

C17_BackoffGrows ==
    (conn # NoValue /\ conn.pc \in {"subscribe", "sleep10"} /\ conn.attempts >= 2) =>
        conn.waitBefore >= 2 * conn.waitBeforePrevious

----------------------------------------------------------------------------
(* lib/amesh: getWebMercatorPixel called on its own *)

\* the latitudes, from beyond the southern edge of the map to beyond the northern
ProjLats == (-(LatUnits \div 2) - 1)..((LatUnits \div 2) + 1)
ProjLngs == {-180, -45, 0, 139, 180}
ProjZooms == (-MaxZoomBeyond)..(30 + MaxZoomBeyond)

ProjInit ==
    /\ EarlierIdle /\ FinalIdle
    /\ LightningIdle /\ BotIdle /\ ConnIdle /\ LineIdle
    /\ \E lat \in ProjLats, lng \in ProjLngs, zoom \in ProjZooms :
          proj = [params |-> [Lat |-> lat, Lng |-> lng, Zoom |-> zoom], results |-> <<>>]

\* one call of getWebMercatorPixel
Project ==
    /\ Len(proj.results) < ProjCalls
    /\ proj' = [proj EXCEPT !.results = Append(@, getWebMercatorPixel(proj.params))]
    /\ UNCHANGED <<earlierVars, finalVars, lightningFetch, bot, conn, line>>

SpecProject == ProjInit /\ [][Project]_vars

----------------------------------------------------------------------------
(* claims about getWebMercatorPixel *)

Projected == proj # NoValue /\ proj.results # <<>>
ZoomInRange == 0 <= proj.params.Zoom /\ proj.params.Zoom <= 30

\* C18: with the zoom below 0 or above 30 the result is exactly (0, 0),
\* whatever the latitude and the longitude
C18_OutOfRangeZoomGivesOrigin ==
    (Projected /\ ~ZoomInRange) =>
        \A i \in 1..Len(proj.results) :
            /\ proj.results[i].x.num = 0
            /\ proj.results[i].y.num = 0

\* a call away from the equator and from the date line with zoom 31
C18_Witness ==
    /\ Projected
    /\ proj.params.Zoom = 31
    /\ proj.params.Lat # 0
    /\ proj.params.Lng = 139

\* v * n
Times(v, n) == Scaled(v.num * n, v.den, v.pow2)

\* 256 * 2^zoom * n
MapSideTimes(zoom, n) == Scaled(n, 1, Log2(TileSize) + zoom)

----------------------------------------------------------------------------
(* lib/amesh: drawLine *)

\* The int of the model has IntBits bits and wraps as the int of Go does.
IntBits == 4
MinInt == -Pow2(IntBits - 1)
MaxInt == Pow2(IntBits - 1) - 1
WrapInt(n) == ((n - MinInt) % Pow2(IntBits)) + MinInt

\* abs[int]
abs(x) == IF x < 0 THEN WrapInt(-x) ELSE x

\* drawLine before its loop
lineStart(params) ==
    LET dx == abs(WrapInt(params.X2 - params.X1))
        dy == abs(WrapInt(params.Y2 - params.Y1))
    IN  [params |-> params, pc |-> "loop",
         dx |-> dx, dy |-> dy,
         sx |-> IF params.X2 < params.X1 THEN -1 ELSE 1,
         sy |-> IF params.Y2 < params.Y1 THEN -1 ELSE 1,
         delta |-> WrapInt(dx - dy),
         x |-> params.X1, y |-> params.Y1,
         visits |-> 0, visited |-> {}, written |-> {}]

InCanvas(params, x, y) ==
    0 <= x /\ 0 <= y /\ x < params.Width /\ y < params.Height

\* one iteration of the loop of drawLine
lineStep(l) ==
    LET set    == [l EXCEPT !.visits = @ + 1,
                            !.visited = @ \cup {<<l.x, l.y>>},
                            !.written = IF InCanvas(l.params, l.x, l.y)
                                        THEN @ \cup {<<l.x, l.y>>} ELSE @]
        d2     == WrapInt(2 * l.delta)
        stepX  == WrapInt(-l.dy) < d2
        delta1 == IF stepX THEN WrapInt(l.delta - l.dy) ELSE l.delta
        stepY  == d2 < l.dx
    IN  IF l.x = l.params.X2 /\ l.y = l.params.Y2
        THEN [set EXCEPT !.pc = "done"]
        ELSE [set EXCEPT !.delta = IF stepY THEN WrapInt(delta1 + l.dx) ELSE delta1,
                         !.x = IF stepX THEN WrapInt(l.x + l.sx) ELSE l.x,
                         !.y = IF stepY THEN WrapInt(l.y + l.sy) ELSE l.y]

LineInit ==
    /\ EarlierIdle /\ FinalIdle
    /\ LightningIdle /\ BotIdle /\ ConnIdle /\ ProjIdle
    /\ \E x1 \in MinInt..MaxInt, y1 \in MinInt..MaxInt,
          x2 \in MinInt..MaxInt, y2 \in MinInt..MaxInt :
          line = lineStart([X1 |-> x1, Y1 |-> y1, X2 |-> x2, Y2 |-> y2,
                            Width |-> LineCanvasWidth, Height |-> LineCanvasHeight])

DrawLineStep ==
    /\ line.pc = "loop"
    /\ line.visits < MaxLineSteps
    /\ line' = lineStep(line)
    /\ UNCHANGED <<earlierVars, finalVars, lightningFetch, bot, conn, proj>>

SpecLine == LineInit /\ [][DrawLineStep]_vars

----------------------------------------------------------------------------
(* claims about drawLine *)

\* max(|x2 - x1|, |y2 - y1|) + 1
Distance(a, b) == IF a < b THEN b - a ELSE a - b
LinePoints(params) ==
    1 + (IF Distance(params.X1, params.X2) > Distance(params.Y1, params.Y2)
         THEN Distance(params.X1, params.X2) ELSE Distance(params.Y1, params.Y2))

\* what C20 says of a state of drawLine
LineVisitsAsClaimed ==
    /\ line.pc = "loop" => line.visits < LinePoints(line.params)
    /\ line.pc = "done" =>
          /\ line.visits = LinePoints(line.params)
          /\ line.x = line.params.X2 /\ line.y = line.params.Y2
    /\ line.visits > 0 => <<line.params.X1, line.params.Y1>> \in line.visited
    /\ line.written = {p \in line.visited : InCanvas(line.params, p[1], p[2])}

\* what C20 says of an iteration of the loop
LineStepAsClaimed ==
    /\ line'.x - line.x \in {-1, 0, 1}
    /\ line'.y - line.y \in {-1, 0, 1}
    /\ line'.visited = line.visited \cup {<<line.x, line.y>>}

\* C20: for all endpoints the loop visits max(|x2 - x1|, |y2 - y1|) + 1 points
\* from (x1, y1) to (x2, y2), moving at most one pixel on each axis, and
\* writes exactly the visited points that lie inside the canvas
C20_LineVisitsEveryPointOnce ==
    /\ [](line # NoValue => LineVisitsAsClaimed)
    /\ [][line # NoValue => LineStepAsClaimed]_vars

\* both differences of the endpoints stay below a quarter of the range of int,
\* so that 2 * delta does not wrap
LineWithoutOverflow ==
    /\ Distance(line.params.X1, line.params.X2) < Pow2(IntBits - 2)
    /\ Distance(line.params.Y1, line.params.Y2) < Pow2(IntBits - 2)

\* the same statement for the endpoints on which no operation of drawLine wraps
ShortLineVisitsEveryPointOnce ==
    /\ []((line # NoValue /\ LineWithoutOverflow) => LineVisitsAsClaimed)
    /\ [][(line # NoValue /\ LineWithoutOverflow) => LineStepAsClaimed]_vars

----------------------------------------------------------------------------
(* lib/amesh: drawLightningMarker, the filled circle *)

\* radius := 7
MarkerRadius == 7

\* lightningColor
LightningColor == "cyan"

\* The int of imgX + dx has MarkerIntBits bits in the model and wraps as the
\* int of Go does; dx*dx + dy*dy is at most 98 and does not wrap.
MarkerIntBits == 6
MarkerMinInt == -Pow2(MarkerIntBits - 1)
MarkerMaxInt == Pow2(MarkerIntBits - 1) - 1
WrapMarkerInt(n) == ((n - MarkerMinInt) % Pow2(MarkerIntBits)) + MarkerMinInt

\* a canvas of the given size: Pix gives the colour of each pixel
CanvasPoints(width, height) == (0..(width - 1)) \X (0..(height - 1))

\* what is on the canvas before the marker: white, or tiles with ring pixels
WhiteCanvas(width, height) ==
    [Dx |-> width, Dy |-> height,
     Pix |-> [p \in CanvasPoints(width, height) |-> "white"]]
RingsCanvas(width, height) ==
    [Dx |-> width, Dy |-> height,
     Pix |-> [p \in CanvasPoints(width, height) |->
                 IF (p[1] + p[2]) % 3 = 0 THEN "ring" ELSE "tile"]]

\* the offsets of the two loops without the test of the circle
markerOffsetsSquare ==
    (-MarkerRadius..MarkerRadius) \X (-MarkerRadius..MarkerRadius)

\* the offsets (dx, dy) the two loops do not skip
markerOffsets ==
    {o \in (-MarkerRadius..MarkerRadius) \X (-MarkerRadius..MarkerRadius) :
        ~(MarkerRadius * MarkerRadius < o[1] * o[1] + o[2] * o[2])}

\* the loops of drawLightningMarker around (imgX, imgY): set holds the points
\* handed to Img.Set
drawMarkerAt(img, imgX, imgY) ==
    LET points == {<<WrapMarkerInt(imgX + o[1]), WrapMarkerInt(imgY + o[2])>> :
                      o \in markerOffsets}
        set    == {p \in points : 0 <= p[1] /\ 0 <= p[2] /\ p[1] < img.Dx /\ p[2] < img.Dy}
    IN  [img |-> [img EXCEPT !.Pix = [p \in DOMAIN @ |->
                                         IF p \in set THEN LightningColor ELSE @[p]]],
         set |-> set]

CanvasesBefore ==
    {WhiteCanvas(CircleCanvasWidth, CircleCanvasHeight),
     RingsCanvas(CircleCanvasWidth, CircleCanvasHeight)}

CircleInit ==
    /\ EarlierIdle
    /\ LightningIdle /\ BotIdle /\ ConnIdle /\ ProjIdle /\ LineIdle /\ ListenIdle /\ LayoutIdle
    /\ \E imgX \in MarkerMinInt..MarkerMaxInt, imgY \in MarkerMinInt..MarkerMaxInt,
          img \in CanvasesBefore :
          circle = [pc |-> "called", imgX |-> imgX, imgY |-> imgY,
                    before |-> img, after |-> NoValue, set |-> {}]

\* the marker is drawn
DrawLightningMarker ==
    /\ circle.pc = "called"
    /\ LET drawn == drawMarkerAt(circle.before, circle.imgX, circle.imgY)
       IN  circle' = [circle EXCEPT !.pc = "done", !.after = drawn.img, !.set = drawn.set]
    /\ UNCHANGED <<earlierVars, lightningFetch, bot, conn, proj, line, listen, layout>>

SpecCircle == CircleInit /\ [][DrawLightningMarker]_vars

----------------------------------------------------------------------------
(* claims about the filled circle *)

CircleDrawn == circle # NoValue /\ circle.pc = "done"

\* (x, y) is within the radius of the centre, in the integers
InDisc(x, y) ==
    (x - circle.imgX) * (x - circle.imgX) + (y - circle.imgY) * (y - circle.imgY)
        <= MarkerRadius * MarkerRadius

\* C21: the marker sets exactly the pixels of the canvas within the radius of
\* the centre to the marker colour, leaves every other pixel as it was and
\* hands no point outside the canvas to Img.Set, wherever the centre is
C21_FilledCircleClippedToCanvas ==
    CircleDrawn =>
        /\ DOMAIN circle.after.Pix = DOMAIN circle.before.Pix
        /\ circle.after.Dx = circle.before.Dx /\ circle.after.Dy = circle.before.Dy
        /\ \A p \in DOMAIN circle.before.Pix :
              circle.after.Pix[p] = IF InDisc(p[1], p[2]) THEN LightningColor
                                    ELSE circle.before.Pix[p]
        /\ circle.set \subseteq DOMAIN circle.before.Pix

\* a marker whose centre is left of the canvas: part of the disc is drawn,
\* part of it is clipped, and pixels beside it keep the ring colour
C21_Witness ==
    /\ CircleDrawn
    /\ circle.imgX = -3 /\ circle.imgY = 2
    /\ circle.after.Pix[<<4, 2>>] = LightningColor
    /\ circle.after.Pix[<<3, 9>>] = "ring"
    /\ circle.before.Pix[<<0, 0>>] = "ring"
    /\ circle.after.Pix[<<0, 0>>] = LightningColor

----------------------------------------------------------------------------
(* claims about the layers of the returned canvas *)

\* the calls that returned a canvas
CanvasReturned == RenderReturned /\ render.params # NilReq

\* Col of the distance circles
RingColor == "grey"

\* the colour an operation leaves on a pixel it writes
ColourGiven(o) ==
    IF o.op = "drawDistanceCircle" THEN RingColor
    ELSE IF o.op = "drawLightningMarker" THEN LightningColor
    ELSE o.src

\* the operations of a kind, as positions in ops
OpsOfKind(ops, kind) == {i \in DOMAIN ops : ops[i].op = kind}

\* The operations that write a pixel of the block of cell c: the rectangle
\* operations whose rectangle holds the block, and of the circles and markers
\* those in overlays, whose line or disc passes through the pixel.
Writes(ops, params, c, overlays, i) ==
    IF "rect" \in DOMAIN ops[i] THEN BlockIn(params, c, ops[i].rect) ELSE i \in overlays

\* the last of the operations 1..i that writes the pixel; the white fill is
\* the first operation and writes every pixel
RECURSIVE LastWriting(_, _, _, _, _)
LastWriting(ops, params, c, overlays, i) ==
    IF i = 1 \/ Writes(ops, params, c, overlays, i) THEN i
    ELSE LastWriting(ops, params, c, overlays, i - 1)

\* the colour of the pixel after ops
PixelColour(ops, params, c, overlays) ==
    ColourGiven(ops[LastWriting(ops, params, c, overlays, Len(ops))])

\* C22: the canvas returned has the tiles drawn first, then the circles of 10,
\* 20, 30, 40 and 50 km, then one marker for each lightning point: a pixel a
\* marker passes through has the marker colour and a pixel a circle but no
\* marker passes through has the ring colour, in every cell of the grid,
\* whether or not its tiles were drawn
C22_MarkersOverRingsOverTiles ==
    CanvasReturned =>
        LET ops     == render.result.img.Ops
            rings   == OpsOfKind(ops, "drawDistanceCircle")
            markers == OpsOfKind(ops, "drawLightningMarker")
        IN  /\ Cardinality(rings) = 5
            /\ {ops[i].km : i \in rings} = {10, 20, 30, 40, 50}
            /\ \A i \in rings, j \in rings : i < j => ops[i].km < ops[j].km
            /\ Cardinality(markers) = Len(render.lightningData)
            /\ \A k \in DOMAIN render.lightningData :
                  \E i \in markers :
                      /\ ops[i].point = render.lightningData[k]
                      /\ Cardinality({j \in markers : j < i}) = k - 1
            /\ \A c \in GridCells(render.params) :
                  \A overlays \in SUBSET (rings \cup markers) :
                      /\ overlays \cap markers # {} =>
                            PixelColour(ops, render.params, c, overlays) = LightningColor
                      /\ (overlays \cap markers = {} /\ overlays # {}) =>
                            PixelColour(ops, render.params, c, overlays) = RingColor

\* radius 1 with a lightning point: the first cell kept the white background,
\* the last has both tiles, and the marker is the last operation on the canvas
C22_Witness ==
    /\ CanvasReturned
    /\ render.params.AroundTiles = 1
    /\ Len(render.lightningData) = 1
    /\ LayersOn(render.result.img.Ops, render.params, <<-1, -1>>) = <<"white">>
    /\ LayersOn(render.result.img.Ops, render.params, <<1, 1>>) = <<"white", "base", "radar">>
    /\ render.result.img.Ops[Len(render.result.img.Ops)].op = "drawLightningMarker"

----------------------------------------------------------------------------
(* claims about the fetches of one call of CreateAmeshImage *)

\* the requests of s for the URL url, as positions in the log
RequestsFor(s, url) == {i \in DOMAIN s.requests : s.requests[i].url = url}

\* the requests of s of one kind of URL
RequestsOfKind(s, kind) == {i \in DOMAIN s.requests : s.requests[i].url.kind = kind}

\* C23: a call that returns a canvas has asked for each of the three index
\* URLs once and for the lightning URL once, for the base tile and for the
\* radar tile of a cell at most once, and for nothing else, whether or not a
\* request failed: no URL is asked for twice
C23_NoFetchIsRetried ==
    CanvasReturned =>
        /\ \A i \in 1..NumIndexURLs : Cardinality(RequestsFor(render, IndexURL(i))) = 1
        /\ Cardinality(RequestsOfKind(render, "targetTimes")) = NumIndexURLs
        /\ Cardinality(RequestsOfKind(render, "liden")) = 1
        /\ \A c \in GridCells(render.params) :
              /\ Cardinality(BaseRequestsOf(render, c)) <= 1
              /\ Cardinality(RadarRequestsOf(render, c)) <= 1
        /\ \A i \in DOMAIN render.requests :
              \/ render.requests[i].url.kind \in {"targetTimes", "liden"}
              \/ /\ render.requests[i].url.kind \in {"osm", "hrpns"}
                 /\ <<render.requests[i].url.x - render.centerTileX,
                      render.requests[i].url.y - render.centerTileY>>
                        \in GridCells(render.params)
        /\ \A i \in DOMAIN render.requests, j \in DOMAIN render.requests :
              i # j => render.requests[i].url # render.requests[j].url

\* radius 1: the three index fetches, the lightning fetch and a base tile
\* fetch failed, and the log holds each of them once
C23_Witness ==
    /\ CanvasReturned
    /\ render.params.AroundTiles = 1
    /\ \A i \in RequestsOfKind(render, "targetTimes") \cup RequestsOfKind(render, "liden") :
          ~render.requests[i].ok
    /\ \E i \in RequestsOfKind(render, "osm") : ~render.requests[i].ok
    /\ Cardinality(RequestsOfKind(render, "osm")) = 9
    /\ Cardinality(RequestsOfKind(render, "hrpns")) = 8

----------------------------------------------------------------------------
(* lib/amesh: where CreateAmeshImage puts the tiles, and drawLightningMarker
   and drawDistanceCircle their pixels *)

\* centerX, centerY, centerTileX, centerTileY and imageSize of CreateAmeshImage
centerOf(params) ==
    [centerX     |-> getWebMercatorPixel(params).x,
     centerY     |-> getWebMercatorPixel(params).y,
     centerTileX |-> centerTile(params).X,
     centerTileY |-> centerTile(params).Y,
     imageSize   |-> imageSize(params)]

\* imgX, imgY of drawLightningMarker; drawDistanceCircle computes the ends of
\* its segments with the same expression
imagePosition(params, location) ==
    LET pixel  == getWebMercatorPixel([Lat |-> location.Lat, Lng |-> location.Lng,
                                       Zoom |-> params.Zoom])
        center == getWebMercatorPixel(params)
    IN  Point(WholePart(PlusInt(Minus(pixel.x, center.x), imageSize(params) \div 2)),
              WholePart(PlusInt(Minus(pixel.y, center.y), imageSize(params) \div 2)))

\* the requests and the places drawn, the requested place itself among them;
\* the zooms stay where a pixel coordinate fits the integers of the model
LayoutZooms == {0, 1, 2, 10, 12}
LayoutParams ==
    {[Lat |-> lat, Lng |-> lng, Zoom |-> zoom, AroundTiles |-> r] :
        lat \in ProjLats, lng \in ProjLngs, zoom \in LayoutZooms, r \in 0..MaxRadius}
LayoutPlaces ==
    {[Lat |-> lat, Lng |-> lng] : lat \in {-1, 0, 1, 2}, lng \in ProjLngs}

LayoutInit ==
    /\ EarlierIdle
    /\ LightningIdle /\ BotIdle /\ ConnIdle /\ ProjIdle /\ LineIdle
    /\ CircleIdle /\ ListenIdle
    /\ \E params \in LayoutParams :
          \E place \in LayoutPlaces \cup {[Lat |-> params.Lat, Lng |-> params.Lng]} :
              layout = [pc |-> "called", params |-> params, place |-> place,
                        center |-> NoValue, position |-> NoValue]

\* CreateAmeshImage computes the centre pixel and the centre tile
CenterTile ==
    /\ layout.pc = "called"
    /\ layout' = [layout EXCEPT !.pc = "tiles", !.center = centerOf(layout.params)]
    /\ UNCHANGED <<earlierVars, lightningFetch, bot, conn, proj, line, circle, listen>>

\* drawLightningMarker computes where on the canvas the place is
ImagePosition ==
    /\ layout.pc = "tiles"
    /\ layout' = [layout EXCEPT !.pc = "placed",
                                !.position = imagePosition(layout.params, layout.place)]
    /\ UNCHANGED <<earlierVars, lightningFetch, bot, conn, proj, line, circle, listen>>

LayoutNext == CenterTile \/ ImagePosition

SpecLayout == LayoutInit /\ [][LayoutNext]_vars

----------------------------------------------------------------------------
(* claims about the tile indices and the canvas coordinates *)

\* floor(v)
Floor(v) ==
    IF v.pow2 >= 0 THEN (v.num * Pow2(v.pow2)) \div v.den
    ELSE v.num \div (v.den * Pow2(-v.pow2))

CenterComputed == layout # NoValue /\ layout.center # NoValue

\* C24: the tile indices CreateAmeshImage derives from the pixel coordinate
\* (x, y) of the centre are floor(x / 256) and floor(y / 256), for every
\* coordinate getWebMercatorPixel returns
C24_TileIndicesAreFloors ==
    CenterComputed =>
        /\ layout.center.centerTileX = Floor(Over256(layout.center.centerX))
        /\ layout.center.centerTileY = Floor(Over256(layout.center.centerY))

\* y is not negative: the latitude is not north of the edge of the square map
NotNorthOfTheMap == layout.params.Lat <= LatUnits \div 2

\* the same statement for the coordinates that are not negative
TileIndicesAreFloorsOnTheMap ==
    (CenterComputed /\ NotNorthOfTheMap) =>
        /\ layout.center.centerTileX = Floor(Over256(layout.center.centerX))
        /\ layout.center.centerTileY = Floor(Over256(layout.center.centerY))

\* the pixel of the world map the place falls in
WorldPixel(params, place) ==
    LET pixel == getWebMercatorPixel([Lat |-> place.Lat, Lng |-> place.Lng,
                                      Zoom |-> params.Zoom])
    IN  Point(Floor(pixel.x), Floor(pixel.y))

\* the cell (dx, dy) of the tile loop whose tile holds the pixel p
CellOf(center, p) ==
    Point((p.X \div TileSize) - center.centerTileX, (p.Y \div TileSize) - center.centerTileY)

\* the tile loop draws the tile that holds the pixel p
InGrid(params, center, p) ==
    /\ CellOf(center, p).X \in -params.AroundTiles..params.AroundTiles
    /\ CellOf(center, p).Y \in -params.AroundTiles..params.AroundTiles

\* where on the canvas the tile loop shows the pixel p: at its place within
\* its tile, in the destRect of the cell of that tile
TilePosition(params, center, p) ==
    LET cell == CellOf(center, p)
        rect == destRect([dx |-> cell.X, dy |-> cell.Y, params |-> params])
    IN  Point(rect.Min.X + (p.X % TileSize), rect.Min.Y + (p.Y % TileSize))

Placed == layout # NoValue /\ layout.pc = "placed"

\* the requested place itself is the place drawn
PlaceIsCentre ==
    layout.place = [Lat |-> layout.params.Lat, Lng |-> layout.params.Lng]

\* what C26 says of a place whose tile is drawn
TilesAndOverlaysAgree ==
    LET p == WorldPixel(layout.params, layout.place)
    IN  InGrid(layout.params, layout.center, p) =>
            /\ TilePosition(layout.params, layout.center, p) = layout.position
            /\ PlaceIsCentre =>
                  TilePosition(layout.params, layout.center, p)
                      = Point(layout.center.imageSize \div 2, layout.center.imageSize \div 2)

\* C26: a place is shown by the tiles at the canvas position at which circles
\* and markers are drawn for it, and the requested place is shown by the tiles
\* at the centre of the canvas
C26_TilesAndOverlaysShareTheMapping ==
    Placed => TilesAndOverlaysAgree

\* the centre is exactly the middle of the centre tile
CentreInTheMiddleOfItsTile ==
    /\ layout.center.centerX
           = Scaled(layout.center.centerTileX * TileSize + TileSize \div 2, 1, 0)
    /\ layout.center.centerY
           = Scaled(layout.center.centerTileY * TileSize + TileSize \div 2, 1, 0)

\* the two mappings agree when the requested place is in the middle of its tile
MappingsAgreeInTheMiddleOfATile ==
    (Placed /\ CentreInTheMiddleOfItsTile) => TilesAndOverlaysAgree

\* such a request exists, with a place beside the centre drawn
MiddleOfATileHappens ==
    /\ Placed
    /\ CentreInTheMiddleOfItsTile
    /\ ~PlaceIsCentre
    /\ InGrid(layout.params, layout.center, WorldPixel(layout.params, layout.place))

----------------------------------------------------------------------------
(* lib/misskey: Bot.Listen *)

\* a message of the stream as ReadJSON decodes it, and one it cannot decode
StreamMessage(type, bodyType, note) ==
    [Type |-> type, Body |-> [Type |-> bodyType, Body |-> note]]
UndecodableMessage == [undecodable |-> TRUE]

\* the test of Listen without the body type
isChannelMessage(msg) == msg.Type = "channel"

\* the test of Listen: the messages that are not skipped
isMention(msg) == ~(msg.Type # "channel" \/ msg.Body.Type # "mention")

\* Listen before its loop: the handler must not be nil
listenBegin(l) ==
    IF l.handlerIsNil
    THEN [l EXCEPT !.pc = "returned",
                   !.err = Err("errors.New", "messageHandler cannot be nil")]
    ELSE [l EXCEPT !.pc = "read"]

\* one ReadJSON of the loop, up to the call of the handler; the connection
\* gives the messages of l.stream in order and fails after the last
readStep(l) ==
    IF l.stream = <<>> \/ Head(l.stream) = UndecodableMessage
    THEN [l EXCEPT !.pc = "returned",
                   !.events = Append(@, [event |-> "readError"]),
                   !.err = Wrap(Err("websocket", "read"), "Failed to ReadJSON")]
    ELSE LET msg  == Head(l.stream)
             read == [l EXCEPT !.stream = Tail(@),
                               !.events = Append(@, [event |-> "read", msg |-> msg])]
         IN  IF ~isMention(msg) THEN read
             ELSE [read EXCEPT !.pc = "handler", !.note = msg.Body.Body,
                               !.events = Append(@, [event |-> "call", note |-> msg.Body.Body])]

\* messageHandler returns; it has no result, and the loop goes on
handlerReturned(l, outcome) ==
    [l EXCEPT !.pc = "read", !.note = NoValue,
              !.events = Append(@, [event |-> "return", note |-> l.note,
                                    outcome |-> outcome])]

\* what the handler did with a note: nothing, replied with the image, replied
\* with the apology, or failed to reply at all
HandlerOutcomes == {"notACommand", "imageReply", "apologyReply", "replyFailed"}

\* the messages a connection delivers
StreamNotes == {"n1", "n2"}
StreamMessages ==
    {StreamMessage("channel", "mention", n) : n \in StreamNotes}
        \cup {StreamMessage("channel", "notification", "n1"),
              StreamMessage("noteUpdated", "mention", "n1"),
              UndecodableMessage}
Streams == SeqsUpTo(StreamMessages, MaxStream)

ListenInit ==
    /\ EarlierIdle
    /\ LightningIdle /\ BotIdle /\ ConnIdle /\ ProjIdle /\ LineIdle
    /\ CircleIdle /\ LayoutIdle
    /\ \E stream \in Streams, handlerIsNil \in BOOLEAN :
          listen = [pc |-> "called", handlerIsNil |-> handlerIsNil, stream |-> stream,
                    delivered |-> stream, note |-> NoValue, events |-> <<>>,
                    err |-> NoError]

ListenUnchanged ==
    UNCHANGED <<earlierVars, lightningFetch, bot, conn, proj, line, circle, layout>>

\* Listen is called
ListenBegin ==
    /\ listen.pc = "called"
    /\ listen' = listenBegin(listen)
    /\ ListenUnchanged

\* ReadJSON returns
ReadJSON ==
    /\ listen.pc = "read"
    /\ listen' = readStep(listen)
    /\ ListenUnchanged

\* the handler returns
HandlerReturns ==
    /\ listen.pc = "handler"
    /\ \E outcome \in HandlerOutcomes : listen' = handlerReturned(listen, outcome)
    /\ ListenUnchanged

ListenNext == ListenBegin \/ ReadJSON \/ HandlerReturns

SpecListen == ListenInit /\ [][ListenNext]_vars

----------------------------------------------------------------------------
(* claims about Bot.Listen *)

Listening == listen # NoValue

\* the events of a kind, in order
EventsOf(kind) == SelectSeq(listen.events, LAMBDA e : e.event = kind)

\* the messages read so far that are channel messages with a mention body
MentionsRead ==
    SelectSeq(EventsOf("read"),
              LAMBDA e : e.msg.Type = "channel" /\ e.msg.Body.Type = "mention")

\* what C25 says of a state of Listen
ListenAsClaimed ==
    LET calls   == EventsOf("call")
        returns == EventsOf("return")
        n       == Len(listen.events)
    IN  /\ Len(calls) = Len(MentionsRead)
        /\ \A i \in DOMAIN calls : calls[i].note = MentionsRead[i].msg.Body.Body
        /\ \A i \in DOMAIN listen.events :
              /\ listen.events[i].event = "call" =>
                    /\ i > 1 /\ listen.events[i - 1].event = "read"
                    /\ listen.events[i - 1].msg.Body.Body = listen.events[i].note
                    /\ i < n => /\ listen.events[i + 1].event = "return"
                                /\ listen.events[i + 1].note = listen.events[i].note
              /\ listen.events[i].event = "return" =>
                    i > 1 /\ listen.events[i - 1].event = "call"
        /\ Len(returns) = IF listen.pc = "handler" THEN Len(calls) - 1 ELSE Len(calls)
        /\ listen.pc = "returned" =>
              /\ listen.err # NoError
              /\ ~listen.handlerIsNil =>
                    /\ n > 0 /\ listen.events[n].event = "readError"
                    /\ Len(EventsOf("readError")) = 1

\* what C25 says of a step of Listen
ListenStepAsClaimed ==
    /\ listen.pc = "handler" =>
          /\ listen'.pc = "read"
          /\ listen'.stream = listen.stream
          /\ listen'.err = NoError
    /\ listen'.stream # listen.stream => listen.pc = "read"

\* C25: the handler is called for the channel messages with a mention body
\* and for no other message, once for each and in the order they are read;
\* no message is read while the handler runs, whatever the handler did the
\* loop reads on, and Listen returns only when a read fails
C25_HandlerOncePerMentionInOrder ==
    /\ [](Listening => ListenAsClaimed)
    /\ [][Listening => ListenStepAsClaimed]_vars

\* two mentions with another message between them were handled, the first
\* handling failed, and the read after the last message ended Listen
C25_Witness ==
    /\ Listening
    /\ listen.pc = "returned"
    /\ Len(listen.delivered) = 3
    /\ Len(EventsOf("call")) = 2
    /\ EventsOf("call")[1].note = "n2" /\ EventsOf("call")[2].note = "n1"
    /\ EventsOf("return")[1].outcome = "replyFailed"
    /\ Len(EventsOf("read")) = 3

----------------------------------------------------------------------------
(* claims about the reply notes of one mention *)

\* the server answered a note creation with a success status: CreateNote
\* returned nil, or failed only in decoding the answer
Accepted(err) == err = NoError \/ ErrorIs(err, "json")

\* the note with the image was created
ImageNoteCreated ==
    \E i \in 1..Len(bot.steps) : bot.steps[i].step = "reply" /\ Accepted(bot.steps[i].err)

\* the note with the apology was created
ApologyNoteCreated == bot.replyErr # NoValue /\ Accepted(bot.replyErr)

HandlingMention == bot # NoValue /\ bot.caller = "messageHandler"

\* C27: for one mention at most one reply note is created, the reply with the
\* image or the apology and never both, and none when the text is not a
\* command
C27_AtMostOneReplyNote ==
    HandlingMention =>
        /\ ~(ImageNoteCreated /\ ApologyNoteCreated)
        /\ ~ParseAmeshCommand(bot.note.Text).IsAmesh => CallsTo("notes/create") = <<>>

\* the answer to the reply with the image was a success that CreateNote could
\* not decode
ImageAnswerUndecodable ==
    \E i \in 1..Len(bot.steps) :
        bot.steps[i].step = "reply" /\ bot.steps[i].err # NoError
                                    /\ ErrorIs(bot.steps[i].err, "json")

\* the same statement for the mentions whose image reply, if accepted, was
\* answered with a document CreateNote decodes; two note creations are then
\* never sent unless the first was refused
OneReplyNoteWhenAnswersDecode ==
    (HandlingMention /\ ~ImageAnswerUndecodable) =>
        /\ ~(ImageNoteCreated /\ ApologyNoteCreated)
        /\ ~ParseAmeshCommand(bot.note.Text).IsAmesh => CallsTo("notes/create") = <<>>

\* a mention that is not a command was handled without any request
NotACommandHandled ==
    /\ HandlingMention
    /\ bot.pc = "done"
    /\ ~ParseAmeshCommand(bot.note.Text).IsAmesh
    /\ bot.calls = <<>>

----------------------------------------------------------------------------
(* claims about the order of the two fetches of a cell *)

\* C28: in the log of a returned call a request for a radar tile follows at
\* once the successful request for the base tile of the same tile; a cell
\* whose base tile failed has no radar request and neither layer, a cell whose
\* radar tile failed keeps the base tile that was drawn
C28_RadarOnlyAfterBaseTile ==
    CanvasReturned =>
        /\ \A j \in DOMAIN render.requests :
              render.requests[j].url.kind = "hrpns" =>
                  /\ j > 1
                  /\ render.requests[j - 1].url.kind = "osm"
                  /\ render.requests[j - 1].url.x = render.requests[j].url.x
                  /\ render.requests[j - 1].url.y = render.requests[j].url.y
                  /\ render.requests[j - 1].url.z = render.requests[j].url.z
                  /\ render.requests[j - 1].ok
        /\ \A i \in FailedTiles(render) :
              LET c == <<render.requests[i].url.x - render.centerTileX,
                         render.requests[i].url.y - render.centerTileY>>
              IN  /\ c \in GridCells(render.params)
                  /\ render.requests[i].url.kind = "osm" =>
                        /\ RadarRequestsOf(render, c) = {}
                        /\ LayersOn(render.img.Ops, render.params, c) = <<"white">>
                  /\ render.requests[i].url.kind = "hrpns" =>
                        LayersOn(render.img.Ops, render.params, c) = <<"white", "base">>

\* radius 1, returned: the base tile of the centre cell failed and the cell
\* has no radar request; the radar tile of the cell after it failed and the
\* cell has its base tile
C28_Witness ==
    /\ RenderReturned
    /\ render.params # NilReq
    /\ render.params.AroundTiles = 1
    /\ \E i \in BaseRequestsOf(render, <<0, 0>>) : ~render.requests[i].ok
    /\ RadarRequestsOf(render, <<0, 0>>) = {}
    /\ \E j \in RadarRequestsOf(render, <<1, 0>>) : ~render.requests[j].ok
    /\ LayersOn(render.img.Ops, render.params, <<1, 0>>) = <<"white", "base">>
    /\ LayersOn(render.img.Ops, render.params, <<0, 0>>) = <<"white">>

----------------------------------------------------------------------------
(* claims about the connection Listen reads *)

\* a step in which ReadJSON of Listen returns, with a message or with an error
ReadReturns ==
    /\ conn # NoValue
    /\ conn.pc = "listen"
    /\ conn'.reads = conn.reads + 1 \/ conn'.pc = "sleep5"

\* bot.WSConn is the connection of the last Connect that returned nil, and
\* Listen has not yet returned an error on it
FreshConnection == conn.subscribed /\ conn.WSConn # conn.lostConn

\* C29: every read of Listen is made on the connection of the most recent
\* Connect that dialled and subscribed; after a failed attempt to reconnect
\* no read is made on the lost connection or on one without the subscription
C29_ReadsOnlyTheLatestConnection ==
    [][ReadReturns => FreshConnection]_vars

\* the same statement for the reads that do not follow a failed Connect
ReadsTheLatestConnectionAfterSuccess ==
    [][(ReadReturns /\ conn.failures = 0) => FreshConnection]_vars

\* Listen is called after a failed Connect with the lost connection in bot.WSConn
ListenOnLostConnection ==
    /\ conn # NoValue
    /\ conn.pc = "listen"
    /\ conn.failures > 0
    /\ conn.WSConn = conn.lostConn

\* Listen is called on a connection whose subscription message failed
ListenWithoutSubscription ==
    /\ conn # NoValue
    /\ conn.pc = "listen"
    /\ conn.failures > 0
    /\ ~conn.subscribed

----------------------------------------------------------------------------
(* claims about the bodies of the API requests *)

\* the requests of the log that apiRequest built
APIRequestCalls ==
    SelectSeq(bot.calls, LAMBDA c : c.endpoint \in {"notes/reactions/create", "notes/create"})

\* the note the requests of the log are about
OriginalNote == IF bot.caller = "messageHandler" THEN bot.note ELSE bot.req.Note

\* the payload holds the pair key, value
Carries(payload, key, value) == key \in DOMAIN payload /\ payload[key] = value

\* a note creation carries the token, the text, the visibility and the ID of
\* the note replied to
NotePayloadComplete(c) ==
    /\ Carries(c.payload, "i", BotToken)
    /\ "text" \in DOMAIN c.payload
    /\ Carries(c.payload, "visibility",
               IF OriginalNote.Visibility = "public" THEN "home" ELSE OriginalNote.Visibility)
    /\ Carries(c.payload, "replyId", OriginalNote.ID)

\* a reaction carries the token, the ID of the note and the reaction
ReactionPayloadComplete(c) ==
    /\ Carries(c.payload, "i", BotToken)
    /\ Carries(c.payload, "noteId", OriginalNote.ID)
    /\ Carries(c.payload, "reaction", ProcessingReaction)

\* C30: every request apiRequest sends carries the token and every pair of
\* the data of its caller: a reaction the noteId and the reaction, a note
\* creation its text, visibility and replyId
C30_PayloadCarriesTokenAndData ==
    bot # NoValue =>
        \A i \in DOMAIN APIRequestCalls :
            IF APIRequestCalls[i].endpoint = "notes/reactions/create"
            THEN ReactionPayloadComplete(APIRequestCalls[i])
            ELSE NotePayloadComplete(APIRequestCalls[i])

\* the same statement for the token alone, and for the note creations, whose
\* data is a map[string]interface{}
TokenAndNoteDataCarried ==
    bot # NoValue =>
        \A i \in DOMAIN APIRequestCalls :
            /\ Carries(APIRequestCalls[i].payload, "i", BotToken)
            /\ APIRequestCalls[i].endpoint = "notes/create" =>
                  NotePayloadComplete(APIRequestCalls[i])

\* what the reaction request carries: the token and nothing else
ReactionCarriesTheTokenAlone ==
    bot # NoValue =>
        \A i \in DOMAIN APIRequestCalls :
            APIRequestCalls[i].endpoint = "notes/reactions/create" =>
                DOMAIN APIRequestCalls[i].payload = {"i"}

\* a reaction and a note creation have been sent
ReactionAndNoteSent ==
    /\ bot # NoValue
    /\ CallsTo("notes/reactions/create") # <<>>
    /\ CallsTo("notes/create") # <<>>

====
